---- MODULE Spec2Model ----
(***************************************************************************)
(* Webhook-driven deployment approval pipeline of ClaudeCodeOrchestrator:  *)
(* the chat events endpoint with its request verification, the reaction    *)
(* handlers (approve / reject), the ledger updates, the deployment trigger *)
(* chain, and the push webhook with its notification fan-out.              *)
(*                                                                         *)
(* Strings that the code parses or compares by length are sequences of     *)
(* one-character strings; an HMAC digest is an opaque token that is equal  *)
(* to another digest only for the same key and the same message.           *)
(***************************************************************************)
EXTENDS Integers, Sequences, FiniteSets, TLC

(***************************************************************************)
(* Bounds of the model.                                                    *)
(***************************************************************************)
MaxReactions == 2
MaxPushes == 2
MaxTicks == 1
StartMillis == 1700000

(***************************************************************************)
(* Program constants.                                                      *)
(***************************************************************************)
ReplayWindowSecs == 300
ShortShaLen == 7

Handlers == 1..MaxReactions
Pushes == 1..MaxPushes

(***************************************************************************)
(* Characters and decimal rendering (template literals, Date.now()).       *)
(***************************************************************************)
DigitChars == <<"0", "1", "2", "3", "4", "5", "6", "7", "8", "9">>

Digits == {"0", "1", "2", "3", "4", "5", "6", "7", "8", "9"}

IsDigit(c) == c \in Digits

Letters ==
  {"a", "b", "c", "d", "e", "f", "g", "h", "i", "j", "k", "l", "m",
   "n", "o", "p", "q", "r", "s", "t", "u", "v", "w", "x", "y", "z",
   "A", "B", "C", "D", "E", "F", "G", "H", "I", "J", "K", "L", "M",
   "N", "O", "P", "Q", "R", "S", "T", "U", "V", "W", "X", "Y", "Z"}

IsAlpha(c) == c \in Letters

RECURSIVE ToDecimal(_)
ToDecimal(n) ==
  IF n < 10 THEN <<DigitChars[n + 1]>>
  ELSE ToDecimal(n \div 10) \o <<DigitChars[(n % 10) + 1]>>

DeployPrefix == <<"d", "e", "p", "l", "o", "y", "-">>
Unknown == <<"u", "n", "k", "n", "o", "w", "n">>

(***************************************************************************)
(* extractDeploymentId: /deploy-[a-zA-Z0-9*/-]+-\d+/ , leftmost match,     *)
(* greedy character class with backtracking, greedy digit run.             *)
(***************************************************************************)
BranchClass == Letters \cup Digits \cup {"*", "/", "-"}

InBranchClass(c) == c \in BranchClass

MatchEnds(text, i) ==
  LET p == i + Len(DeployPrefix)
      Qs == {q \in p..Len(text) :
               /\ \A k \in p..q : InBranchClass(text[k])
               /\ q + 2 <= Len(text)
               /\ text[q + 1] = "-"
               /\ IsDigit(text[q + 2])}
  IN  IF i + Len(DeployPrefix) - 1 > Len(text)
         \/ SubSeq(text, i, i + Len(DeployPrefix) - 1) # DeployPrefix
         \/ Qs = {}
      THEN {}
      ELSE LET q == CHOOSE x \in Qs : \A y \in Qs : y <= x
               Es == {e \in (q + 2)..Len(text) :
                        \A k \in (q + 2)..e : IsDigit(text[k])}
           IN  {CHOOSE x \in Es : \A y \in Es : y <= x}

\* The values messageText can be: null, undefined or a string.
JsNull == [kind |-> "null", text |-> <<>>]
JsUndefined == [kind |-> "undefined", text |-> <<>>]
JsString(s) == [kind |-> "string", text |-> s]

\* !messageText
Falsy(v) == v.kind \in {"null", "undefined"} \/ v.text = <<>>

extractDeploymentId(messageText) ==
  IF Falsy(messageText) THEN Unknown
  ELSE LET text == messageText.text
           Starts == {i \in 1..Len(text) : MatchEnds(text, i) # {}}
       IN  IF Starts = {} THEN Unknown
           ELSE LET i == CHOOSE x \in Starts : \A y \in Starts : x <= y
                    e == CHOOSE x \in MatchEnds(text, i) : TRUE
                IN  SubSeq(text, i, e)


(***************************************************************************)
(* Branch names, routing and the announcement template.                    *)
(***************************************************************************)
FeaturePrefix == <<"f", "e", "a", "t", "u", "r", "e", "/">>
Develop == <<"d", "e", "v", "e", "l", "o", "p">>
Main == <<"m", "a", "i", "n">>

StartsWith(s, prefix) ==
  Len(s) >= Len(prefix) /\ SubSeq(s, 1, Len(prefix)) = prefix

\* A router that takes 'feature' without the slash for the DEV prefix.
getChannelForBranch_noSlash(branch) ==
  IF StartsWith(branch, SubSeq(FeaturePrefix, 1, Len(FeaturePrefix) - 1))
  THEN "SLACK_DEV_CHANNEL_ID"
  ELSE IF branch = Develop THEN "SLACK_QA_CHANNEL_ID"
  ELSE IF branch = Main THEN "SLACK_PROD_CHANNEL_ID"
  ELSE "SLACK_INCIDENTS_CHANNEL_ID"

\* A router whose production branch is 'master'.
getChannelForBranch_master(branch) ==
  IF StartsWith(branch, FeaturePrefix) THEN "SLACK_DEV_CHANNEL_ID"
  ELSE IF branch = Develop THEN "SLACK_QA_CHANNEL_ID"
  ELSE IF branch = <<"m", "a", "s", "t", "e", "r">> THEN "SLACK_PROD_CHANNEL_ID"
  ELSE "SLACK_INCIDENTS_CHANNEL_ID"

getChannelForBranch(branch) ==
  IF StartsWith(branch, FeaturePrefix) THEN "SLACK_DEV_CHANNEL_ID"
  ELSE IF branch = Develop THEN "SLACK_QA_CHANNEL_ID"
  ELSE IF branch = Main THEN "SLACK_PROD_CHANNEL_ID"
  ELSE "SLACK_INCIDENTS_CHANNEL_ID"

statusLabel(branch) ==
  IF StartsWith(branch, FeaturePrefix)
  THEN <<"D", "E", "V", " ", "d", "e", "p", "l", "o", "y", "m", "e", "n", "t",
         " ", "p", "e", "n", "d", "i", "n", "g">>
  ELSE IF branch = Develop
  THEN <<"Q", "A", " ", "d", "e", "p", "l", "o", "y", "m", "e", "n", "t",
         " ", "p", "e", "n", "d", "i", "n", "g">>
  ELSE IF branch = Main
  THEN <<"P", "R", "O", "D", " ", "d", "e", "p", "l", "o", "y", "m", "e", "n",
         "t", " ", "p", "e", "n", "d", "i", "n", "g">>
  ELSE <<"d", "e", "p", "l", "o", "y", "m", "e", "n", "t", " ", "p", "e", "n",
         "d", "i", "n", "g">>

DeploymentIdFor(branch, millis) ==
  DeployPrefix \o branch \o <<"-">> \o ToDecimal(millis)

\* The text of the announcement, as the template of
\* sendDeploymentNotification builds it.  The closing 'Triggered:' line, an
\* ISO time, is left out: it holds no letters but T and Z.
commitUrl(d) ==
  <<"h", "t", "t", "p", "s", ":", "/", "/", "g", "i", "t", "h", "u", "b", ".",
    "c", "o", "m", "/">>
    \o d.repository \o <<"/", "c", "o", "m", "m", "i", "t", "/">> \o d.commit_sha

AnnouncementText(d) ==
  statusLabel(d.branch) \o <<" ", "-", " ">> \o d.deployment_id
    \o <<"\n", "\n", "R", "e", "p", "o", "s", "i", "t", "o", "r", "y", ":",
         " ">>
    \o d.repository
    \o <<"\n", "B", "r", "a", "n", "c", "h", ":", " ">> \o d.branch
    \o <<"\n", "C", "o", "m", "m", "i", "t", ":", " ", "<">>
    \o commitUrl(d) \o <<"|">> \o d.commit_sha \o <<">", " ", "-", " ">>
    \o d.commit_message
    \o <<"\n", "A", "u", "t", "h", "o", "r", ":", " ">> \o d.commit_author

(***************************************************************************)
(* HMAC-SHA256 in hex: one opaque token per (key, message).                *)
(***************************************************************************)
HmacSha256Hex(key, msg) == <<[key |-> key, msg |-> msg]>>

SlackSigningSecret == "SLACK_SIGNING_SECRET"
GitHubWebhookSecret == "GITHUB_WEBHOOK_SECRET"
ForgerKey == "not-the-secret"


(***************************************************************************)
(* State.                                                                  *)
(*   now      the server clock, in milliseconds (Date.now())               *)
(*   env      which parts of the process environment are configured        *)
(*   channel  the chat messages that reactions can target, by message ts   *)
(*   ledger   the ledger entries, by deployment identifier                 *)
(*   rx       one frame per chat event request: the responses and the      *)
(*            locals of the reaction handler it started, with the log of   *)
(*            the calls the handler issued and their outcomes              *)
(*   lastReq  the chat event request received last, and its frame          *)
(*   px       one frame per push webhook request: the responses, the       *)
(*            deployment event and the state of its fan-out                *)
(*   lastPush the push webhook request received last, and its frame        *)
(***************************************************************************)
VARIABLES now, env, channel, ledger, rx, lastReq, px, lastPush, rt, pf, pm

vars == <<now, env, channel, ledger, rx, lastReq, px, lastPush, rt, pf, pm>>

(***************************************************************************)
(* Chat event requests.                                                    *)
(***************************************************************************)
NoHeader == <<>>
NoTimestamp == [kind |-> "absent", val |-> 0]
NotANumber == [kind |-> "nan", val |-> 0]
Timestamp(n) == [kind |-> "int", val |-> n]

NowSecs == now \div 1000

Abs(n) == IF n < 0 THEN 0 - n ELSE n

\* 'v0=' + hex HMAC of 'v0:<timestamp>:<raw body>'
SlackSignature(key, ts, body) ==
  <<"v0=">> \o HmacSha256Hex(key, <<"v0", ts, body>>)

ReactionSymbols == {"white_check_mark", "+1", "x", "-1", "eyes"}
ItemTargets ==
  {[type |-> "message", channel |-> "C_PROD", ts |-> "M1"],
   [type |-> "message", channel |-> "C_PROD", ts |-> "M0"],
   [type |-> "file", channel |-> "C_PROD", ts |-> "M1"]}

NoItem == [type |-> "none", channel |-> "none", ts |-> "none"]

Announcement == [type |-> "message", channel |-> "C_PROD", ts |-> "M1"]

\* Every symbol on every target by one user, and an approval and a rejection
\* of the announcement by another.
ReactionEvents ==
  {[type |-> "reaction_added", user |-> "U1", reaction |-> r, item |-> i] :
     r \in ReactionSymbols, i \in ItemTargets}
  \cup
  {[type |-> "reaction_added", user |-> "U2", reaction |-> r, item |-> Announcement] :
     r \in {"white_check_mark", "x"}}

OtherEvents ==
  {[type |-> t, user |-> "U1", reaction |-> "none", item |-> NoItem] :
     t \in {"message", "missing"}}

ChatBodies ==
  {[type |-> "event_callback", event |-> e] : e \in ReactionEvents \cup OtherEvents}
    \cup {[type |-> t, event |-> [type |-> "missing", user |-> "U1",
                                  reaction |-> "none", item |-> NoItem]] :
            t \in {"url_verification", "app_rate_limited"}}

\* The timestamp headers a request can carry: none, unparseable, the current
\* second, the edges of the replay window and one second beyond each edge.
TimestampHeaders ==
  {NoTimestamp, NotANumber}
    \cup {Timestamp(NowSecs + d) :
            d \in {0 - ReplayWindowSecs - 1, 0 - ReplayWindowSecs, 0,
                   ReplayWindowSecs, ReplayWindowSecs + 1}}

\* The signature headers a request can carry: none, the sender's signature
\* for this timestamp and body, a signature of the same length made without
\* the secret, and a truncated one.
SignatureHeaders(ts, body) ==
  {NoHeader,
   SlackSignature(SlackSigningSecret, ts, body),
   SlackSignature(ForgerKey, ts, body),
   <<"v0=">>}

RepresentativeBody ==
  [type |-> "event_callback",
   event |-> [type |-> "reaction_added", user |-> "U1", reaction |-> "x",
              item |-> Announcement]]

\* Every body with the sender's headers; one rejection reaction with every
\* timestamp header under the sender's signature for it, and with every
\* signature header under the current timestamp.
ChatRequests ==
  {[ts |-> Timestamp(NowSecs),
    sig |-> SlackSignature(SlackSigningSecret, Timestamp(NowSecs), b),
    body |-> b] : b \in ChatBodies}
  \cup
  {[ts |-> t, sig |-> SlackSignature(SlackSigningSecret, t, RepresentativeBody),
    body |-> RepresentativeBody] : t \in TimestampHeaders}
  \cup
  {[ts |-> Timestamp(NowSecs), sig |-> g, body |-> RepresentativeBody] :
     g \in SignatureHeaders(Timestamp(NowSecs), RepresentativeBody)}

(***************************************************************************)
(* verifySlackRequest, the verify hook of the JSON body parser.  The hook  *)
(* rejects a request only by throwing; the value is the line it logs, or   *)
(* "throw" when the constant-time comparison is given buffers of different *)
(* lengths.                                                                *)
(***************************************************************************)
verifySlackRequest(req) ==
  IF ~env.SLACK_SIGNING_SECRET THEN "skipping verification"
  ELSE IF req.ts.kind = "absent" \/ req.sig = NoHeader
  THEN "missing headers"
  ELSE IF req.ts.kind = "int" /\ Abs(NowSecs - req.ts.val) > ReplayWindowSecs
  THEN "timestamp too old"
  ELSE LET mySignature == SlackSignature(SlackSigningSecret, req.ts, req.body)
       IN  IF Len(mySignature) # Len(req.sig) THEN "throw"
           ELSE IF mySignature # req.sig THEN "verification failed"
           ELSE "verified"


(***************************************************************************)
(* The chat workspace and the ledger.                                      *)
(***************************************************************************)
\* users.info: real_name may be empty, name is the handle.
UserDirectory(u) ==
  IF u = "U1" THEN [real_name |-> "Ana Diaz", name |-> "ana"]
  ELSE [real_name |-> "", name |-> "bob"]

\* The deployment announced before the server's clock started.
FirstDeployment ==
  [repository |-> <<"o", "/", "r">>,
   branch |-> Main,
   commit_sha |-> <<"a", "b", "c", "1", "2", "3", "4">>,
   commit_message |-> <<"F", "i", "x">>,
   commit_author |-> <<"A", "n", "a">>,
   deployment_id |-> DeploymentIdFor(Main, StartMillis - 1)]

ChatText == <<"n", "o", " ", "i", "d", " ", "h", "e", "r", "e">>

MessageText(m) ==
  IF m.kind = "announcement" THEN AnnouncementText(m.dep) ELSE ChatText

PendingEntry ==
  [status |-> "Pending", approvedBy |-> "", approvalTime |-> 0,
   rejectedBy |-> "", rejectionTime |-> 0, writes |-> <<>>]

(***************************************************************************)
(* Frames of the chat event requests.                                      *)
(***************************************************************************)
NoEvent == [type |-> "missing", user |-> "U1", reaction |-> "none", item |-> NoItem]

NoRequest ==
  [ts |-> NoTimestamp, sig |-> NoHeader, body |-> [type |-> "none", event |-> NoEvent]]

\* channel, threadTs and userId are the arguments handleReactionAdded passes
\* to approveDeployment / rejectDeployment.
IdleFrame ==
  [pc |-> "idle", res |-> <<>>, invoked |-> <<>>,
   channel |-> "none", threadTs |-> "none", userId |-> "none",
   userName |-> "", deploymentId |-> <<>>, calls |-> <<>>, oks |-> <<>>,
   ledgerResult |-> "none", afterRejection |-> FALSE]

Call(op, what, f, id) ==
  [op |-> op, what |-> what, channel |-> f.channel, thread |-> f.threadTs, id |-> id]

Response(status, body) == [status |-> status, body |-> body]

Issue(f, call, pc) == [f EXCEPT !.calls = Append(@, call), !.pc = pc]

Completed(f, ok) == [f EXCEPT !.oks = Append(@, ok)]

Finish(f) == [f EXCEPT !.pc = "done"]


(***************************************************************************)
(* The reaction handlers.  Each operator is the synchronous run of the     *)
(* code up to its next awaited call: it yields the frame with that call    *)
(* issued.  The actions further down are the completions of those calls.   *)
(***************************************************************************)
Path(f) ==
  IF \E i \in 1..Len(f.invoked) : f.invoked[i] = "approveDeployment"
  THEN "approveDeployment"
  ELSE IF \E i \in 1..Len(f.invoked) : f.invoked[i] = "rejectDeployment"
  THEN "rejectDeployment"
  ELSE "none"

\* A catch block that logs only.
errorReply_logOnly(f) == Finish(f)

\* The catch blocks of approveDeployment and rejectDeployment.
errorReply(f) ==
  Issue(f, Call("chat.postMessage", "error", f, <<>>), "error")

\* A fallback message posted to the channel, outside the thread.
postDeploymentCommand_noThread(f, pc) ==
  Issue(f, [Call("chat.postMessage", "fallback", f, f.deploymentId)
              EXCEPT !.thread = "none"], pc)

\* postDeploymentCommand: the manual fallback message.
postDeploymentCommand(f, pc) ==
  Issue(f, Call("chat.postMessage", "fallback", f, f.deploymentId), pc)

\* GITHUB_TOKEN and GITHUB_REPO are both set.
DispatchConfigured == env.GITHUB_REPO # ""

\* https.request accepts the path '/repos/<owner>/<repo>/dispatches' built
\* from GITHUB_REPO: it throws on a path with unescaped characters.
RequestPathAccepted == env.GITHUB_REPO = "o/r"

\* A trigger chain that skips a deployment already dispatched.
triggerGitHubDeployment_once(f) ==
  IF ~DispatchConfigured THEN postDeploymentCommand(f, "fallback")
  ELSE IF ~RequestPathAccepted THEN errorReply(f)
  ELSE IF \E h \in Handlers : \E i \in 1..Len(rx[h].calls) :
            /\ rx[h].calls[i].op = "github.dispatch"
            /\ rx[h].calls[i].id = f.deploymentId
  THEN Finish(f)
  ELSE Issue(f, Call("github.dispatch", f.userName, f, f.deploymentId), "dispatch")

\* triggerGitHubDeployment up to the dispatch request (or, without the
\* configuration, up to the awaited fallback post).  The request is built
\* inside the executor of the returned promise, which is not awaited in the
\* function's try block: when https.request throws, the promise rejects and
\* the rejection reaches the catch block of approveDeployment.
triggerGitHubDeployment(f) ==
  IF ~DispatchConfigured THEN postDeploymentCommand(f, "fallback")
  ELSE IF ~RequestPathAccepted THEN errorReply(f)
  ELSE Issue(f, Call("github.dispatch", f.userName, f, f.deploymentId),
             "dispatch")

\* A continuation that goes on to the trigger chain on either path.
ledgerReturned_anyPath(f, result) ==
  triggerGitHubDeployment([f EXCEPT !.ledgerResult = IF result THEN "true" ELSE "false"])

\* The handler after updateDeploymentApproval / updateDeploymentRejection
\* returned: the approve path goes on to the trigger chain.
ledgerReturned(f, result) ==
  LET g == [f EXCEPT !.ledgerResult = IF result THEN "true" ELSE "false"]
  IN  IF Path(g) = "approveDeployment" THEN triggerGitHubDeployment(g)
      ELSE Finish(g)

\* A ledger update that throws without the configuration.
updateDeploymentStatus_throwsUnconfigured(f) ==
  IF ~env.NOTION THEN errorReply(f)
  ELSE Issue(f, Call("notion.query", "Deployment ID", f, f.deploymentId),
             "notionQuery")

\* An approve path that skips the ledger update.
updateDeploymentStatus_triggerFirst(f) ==
  IF Path(f) = "approveDeployment" THEN triggerGitHubDeployment(f)
  ELSE IF ~env.NOTION THEN ledgerReturned(f, FALSE)
  ELSE Issue(f, Call("notion.query", "Deployment ID", f, f.deploymentId),
             "notionQuery")

\* updateDeploymentApproval / updateDeploymentRejection up to the query of
\* findDeploymentRecord.
updateDeploymentStatus(f) ==
  IF ~env.NOTION THEN ledgerReturned(f, FALSE)
  ELSE Issue(f, Call("notion.query", "Deployment ID", f, f.deploymentId),
             "notionQuery")

approveDeployment(f, channelId, threadTs, userId) ==
  LET g == [f EXCEPT !.invoked = Append(@, "approveDeployment"),
                     !.channel = channelId, !.threadTs = threadTs,
                     !.userId = userId]
  IN  Issue(g, Call("users.info", userId, g, <<>>), "userInfo")

rejectDeployment(f, channelId, threadTs, userId) ==
  LET g == [f EXCEPT !.invoked = Append(@, "rejectDeployment"),
                     !.channel = channelId, !.threadTs = threadTs,
                     !.userId = userId]
  IN  Issue(g, Call("users.info", userId, g, <<>>), "userInfo")

\* A symbol table without the '+1' alias.
handleReactionAdded_noAlias(f, event) ==
  LET g == [f EXCEPT !.invoked = Append(@, "handleReactionAdded")]
  IN  IF event.item.type # "message" THEN Finish(g)
      ELSE IF event.reaction = "white_check_mark"
      THEN approveDeployment(g, event.item.channel, event.item.ts, event.user)
      ELSE IF event.reaction = "x" \/ event.reaction = "-1"
      THEN rejectDeployment(g, event.item.channel, event.item.ts, event.user)
      ELSE Finish(g)

\* A handler that does not look at the type of the item.
handleReactionAdded_anyItem(f, event) ==
  LET g == [f EXCEPT !.invoked = Append(@, "handleReactionAdded")]
  IN  IF event.reaction = "white_check_mark" \/ event.reaction = "+1"
      THEN approveDeployment(g, event.item.channel, event.item.ts, event.user)
      ELSE IF event.reaction = "x" \/ event.reaction = "-1"
      THEN rejectDeployment(g, event.item.channel, event.item.ts, event.user)
      ELSE Finish(g)

handleReactionAdded(f, event) ==
  LET g == [f EXCEPT !.invoked = Append(@, "handleReactionAdded")]
  IN  IF event.item.type # "message" THEN Finish(g)
      ELSE IF event.reaction = "white_check_mark" \/ event.reaction = "+1"
      THEN approveDeployment(g, event.item.channel, event.item.ts, event.user)
      ELSE IF event.reaction = "x" \/ event.reaction = "-1"
      THEN rejectDeployment(g, event.item.channel, event.item.ts, event.user)
      ELSE Finish(g)

\* app.post('/slack/events'): the route handler up to its first await.
slackEvents(f, req) ==
  LET body == req.body
  IN  IF body.type = "url_verification"
      THEN Finish([f EXCEPT !.res = <<Response(200, "challenge")>>])
      ELSE LET g == [f EXCEPT !.res = <<Response(200, "ok")>>]
           IN  IF body.type # "event_callback" THEN Finish(g)
               ELSE IF body.event.type = "missing"
               \* reading event.type throws; the catch block answers again
               THEN Finish([g EXCEPT !.res = Append(@, Response(500, "error"))])
               ELSE IF body.event.type = "reaction_added"
               THEN handleReactionAdded(g, body.event)
               ELSE Finish(g)

\* The JSON body parser with its verify hook, then the route.
chatEndpoint(f, req) ==
  IF verifySlackRequest(req) = "throw"
  THEN Finish([f EXCEPT !.res = <<Response(403, "error")>>])
  ELSE slackEvents(f, req)

\* History of the conversation, read by no handler: the rejection of the
\* first deployment was already handled when the reaction arrived.
IsApprovalReply(c) == c.op = "chat.postMessage" /\ c.what = "approved"
IsRejectionReply(c) == c.op = "chat.postMessage" /\ c.what = "rejected"

ReplyPosted(f) ==
  \E i \in 1..Len(f.calls) :
    /\ IsApprovalReply(f.calls[i]) \/ IsRejectionReply(f.calls[i])
    /\ i <= Len(f.oks) /\ f.oks[i]

RejectionHandled(id) ==
  \E g \in Handlers :
    /\ Path(rx[g]) = "rejectDeployment"
    /\ rx[g].pc = "done"
    /\ rx[g].deploymentId = id
    /\ ReplyPosted(rx[g])
    /\ rx[g].ledgerResult = "true"

Arrived(f) ==
  [f EXCEPT !.afterRejection = RejectionHandled(FirstDeployment.deployment_id)]

(***************************************************************************)
(* Actions of the chat events endpoint and the reaction handlers.          *)
(***************************************************************************)
SlackEventsPost(h) ==
  /\ rx[h].pc = "idle"
  /\ \A g \in Handlers : g < h => rx[g].pc # "idle"
  /\ \E req \in ChatRequests :
       /\ rx' = [rx EXCEPT ![h] = chatEndpoint(Arrived(@), req)]
       /\ lastReq' = [slot |-> h, req |-> req]
  /\ UNCHANGED <<now, env, channel, ledger, px, lastPush, rt, pf, pm>>

UsersInfoReturns(h, ok) ==
  /\ rx[h].pc = "userInfo"
  /\ LET f == Completed(rx[h], ok)
         info == UserDirectory(f.userId)
         g == [f EXCEPT !.userName =
                 IF info.real_name # "" THEN info.real_name ELSE info.name]
     IN  rx' = [rx EXCEPT ![h] =
                 IF ok
                 THEN Issue(g, Call("conversations.history", "latest",
                                    g, <<>>), "history")
                 ELSE errorReply(f)]
  /\ UNCHANGED <<now, env, channel, ledger, lastReq, px, lastPush, rt, pf, pm>>

HistoryReturns(h, ok) ==
  /\ rx[h].pc = "history"
  /\ LET f == Completed(rx[h], ok)
         message == channel[f.threadTs]
         g == [f EXCEPT !.deploymentId = extractDeploymentId(JsString(MessageText(message)))]
         what == IF Path(f) = "approveDeployment" THEN "approved" ELSE "rejected"
     IN  rx' = [rx EXCEPT ![h] =
                 IF ok
                 THEN Issue(g, Call("chat.postMessage", what, g, <<>>),
                            "reply")
                 ELSE errorReply(f)]
  /\ UNCHANGED <<now, env, channel, ledger, lastReq, px, lastPush, rt, pf, pm>>

ReplyReturns(h, ok) ==
  /\ rx[h].pc = "reply"
  /\ LET f == Completed(rx[h], ok)
     IN  rx' = [rx EXCEPT ![h] = IF ok THEN updateDeploymentStatus(f) ELSE errorReply(f)]
  /\ UNCHANGED <<now, env, channel, ledger, lastReq, px, lastPush, rt, pf, pm>>


\* findDeploymentRecord answers: a page when the query succeeds and an entry
\* with this identifier exists, null otherwise (also on a failed query).
NotionQueryReturns(h, ok) ==
  /\ rx[h].pc = "notionQuery"
  /\ LET f == Completed(rx[h], ok)
         found == ok /\ f.deploymentId \in DOMAIN ledger
         status == IF Path(f) = "approveDeployment" THEN "Approved" ELSE "Rejected"
     IN  rx' = [rx EXCEPT ![h] =
                 IF found
                 THEN Issue(f, Call("notion.patch", status, f,
                                    f.deploymentId), "notionPatch")
                 ELSE ledgerReturned(f, FALSE)]
  /\ UNCHANGED <<now, env, channel, ledger, lastReq, px, lastPush, rt, pf, pm>>

\* The PATCH of updateDeploymentApproval / updateDeploymentRejection: status,
\* identity and time are written together, whatever the entry's status was.
\* An update that writes the status alone.
patchEntry_statusOnly(entry, status, who, time) ==
  [entry EXCEPT !.status = status, !.writes = Append(@, status)]

patchEntry(entry, status, who, time) ==
  IF status = "Approved"
  THEN [entry EXCEPT !.status = status, !.approvedBy = who,
                     !.approvalTime = time, !.writes = Append(@, status)]
  ELSE [entry EXCEPT !.status = status, !.rejectedBy = who,
                     !.rejectionTime = time, !.writes = Append(@, status)]

NotionPatchReturns(h, ok) ==
  /\ rx[h].pc = "notionPatch"
  /\ LET f == Completed(rx[h], ok)
         status == f.calls[Len(f.calls)].what
         id == f.deploymentId
     IN  /\ rx' = [rx EXCEPT ![h] = ledgerReturned(f, ok)]
         /\ ledger' = IF ok /\ id \in DOMAIN ledger
                      THEN [ledger EXCEPT ![id] = patchEntry(@, status, f.userName, now)]
                      ELSE ledger
  /\ UNCHANGED <<now, env, channel, lastReq, px, lastPush, rt, pf, pm>>

\* The response callback and the error callback of the dispatch request:
\* the success reply, or the fallback message, is posted without awaiting it
\* and the promise resolves.
dispatchCallback(f, outcome) ==
  IF outcome = "2xx"
  THEN Issue(f, Call("chat.postMessage", "success", f, f.deploymentId),
             "detached")
  ELSE postDeploymentCommand(f, "detached")

DispatchReturns(h, outcome) ==
  /\ rx[h].pc = "dispatch"
  /\ rx' = [rx EXCEPT ![h] = dispatchCallback(Completed(@, outcome = "2xx"), outcome)]
  /\ UNCHANGED <<now, env, channel, ledger, lastReq, px, lastPush, rt, pf, pm>>

\* The last post of a handler returns: the awaited fallback message, the
\* detached success or fallback message, or the error reply.  A failure is
\* logged and nothing else happens.
LastPostReturns(h, ok) ==
  /\ rx[h].pc \in {"fallback", "detached", "error"}
  /\ rx' = [rx EXCEPT ![h] = Finish(Completed(@, ok))]
  /\ UNCHANGED <<now, env, channel, ledger, lastReq, px, lastPush, rt, pf, pm>>

(***************************************************************************)
(* The push webhook: requests.                                             *)
(***************************************************************************)
RefsHeads == <<"r", "e", "f", "s", "/", "h", "e", "a", "d", "s", "/">>

\* String.prototype.replace with a string pattern: the first occurrence.
ReplaceFirst(str, pattern, with) ==
  LET At == {i \in 1..(Len(str) - Len(pattern) + 1) :
               SubSeq(str, i, i + Len(pattern) - 1) = pattern}
  IN  IF At = {} THEN str
      ELSE LET i == CHOOSE x \in At : \A y \in At : x <= y
           IN  SubSeq(str, 1, i - 1) \o with
                 \o SubSeq(str, i + Len(pattern), Len(str))

\* String.prototype.substring(0, n)
Substring0(str, n) == SubSeq(str, 1, IF Len(str) < n THEN Len(str) ELSE n)

\* The whole message instead of its first line.
FirstLine_whole(str) == str

\* str.split('\n')[0]
FirstLine(str) ==
  LET Breaks == {i \in 1..Len(str) : str[i] = "\n"}
  IN  IF Breaks = {} THEN str
      ELSE SubSeq(str, 1, (CHOOSE x \in Breaks : \A y \in Breaks : x <= y) - 1)

Commit1 ==
  [id |-> <<"a", "b", "c", "1", "2", "3", "4", "d", "e", "f">>,
   message |-> <<"F", "i", "x", " ", "b", "u", "g", "\n", "\n", "b", "o", "d", "y">>,
   author |-> <<"A", "n", "a">>]

Commit2 ==
  [id |-> <<"9", "9", "f">>,
   message |-> <<"W", "i", "p">>,
   author |-> <<"B", "o", "b">>]

CommitLists == {<<>>, <<Commit1>>, <<Commit2, Commit1>>, <<Commit1, Commit2>>}

Refs ==
  {RefsHeads \o Main,
   RefsHeads \o Develop,
   RefsHeads \o FeaturePrefix \o <<"x">>,
   RefsHeads \o <<"h", "o", "t", "f", "i", "x">>,
   <<"r", "e", "f", "s", "/", "t", "a", "g", "s", "/", "v", "1">>}

PushBody(ref, commits) ==
  [repository |-> <<"o", "/", "r">>, ref |-> ref, pusher |-> <<"A", "n", "a">>,
   commits |-> commits]

\* The raw body is the JSON text the sender signed; express.json parses it
\* and the handler signs JSON.stringify of the parsed value, which is the
\* compact text whatever the layout of the raw body was.
JSONparse(raw) == raw.json

JSONstringify(value) == [layout |-> "compact", json |-> value]

GitHubSignature(key, payload) == <<"sha256=">> \o HmacSha256Hex(key, payload)

RepresentativePush == PushBody(RefsHeads \o Main, <<Commit1>>)

\* Every ref with one commit and every commits list on main, as a push and
\* as a ping, under the sender's signature; one push with every signature
\* header; and that push sent pretty-printed.
PushBodies ==
  {PushBody(r, <<Commit1>>) : r \in Refs}
    \cup {PushBody(RefsHeads \o Main, c) : c \in CommitLists}

PushRequests ==
  {[sig |-> GitHubSignature(GitHubWebhookSecret, JSONstringify(b)),
    event |-> e, delivery |-> "dlv-1", raw |-> JSONstringify(b)] :
     e \in {"push", "ping"}, b \in PushBodies}
  \cup
  {[sig |-> g, event |-> "push", delivery |-> "dlv-1",
    raw |-> JSONstringify(RepresentativePush)] :
     g \in {NoHeader,
            GitHubSignature(ForgerKey, JSONstringify(RepresentativePush)),
            <<"sha256=">>,
            GitHubSignature(GitHubWebhookSecret, JSONstringify(RepresentativePush))
              \o <<"0">>}}
  \cup
  {[sig |-> GitHubSignature(GitHubWebhookSecret,
                            [layout |-> "pretty", json |-> RepresentativePush]),
    event |-> "push", delivery |-> "dlv-1",
    raw |-> [layout |-> "pretty", json |-> RepresentativePush]]}

NoPushRequest ==
  [sig |-> NoHeader, event |-> "none", delivery |-> "none",
   raw |-> JSONstringify(PushBody(<<>>, <<>>))]

\* verifyGitHubSignature: FALSE without the header, the outcome of the
\* constant-time comparison otherwise, which throws on buffers of different
\* lengths.
verifyGitHubSignature(req, secret) ==
  IF req.sig = NoHeader THEN "false"
  ELSE LET payload == JSONstringify(JSONparse(req.raw))
           expectedSignature == GitHubSignature(secret, payload)
       IN  IF Len(req.sig) # Len(expectedSignature) THEN "throw"
           ELSE IF req.sig = expectedSignature THEN "true"
           ELSE "false"

(***************************************************************************)
(* The push webhook: router.post('/github') and the notification fan-out.  *)
(***************************************************************************)
NoDeployment ==
  [repository |-> <<>>, branch |-> <<>>, commit_sha |-> <<>>,
   commit_message |-> <<>>, commit_author |-> <<>>, deployment_id |-> <<>>]

\* destination is the channel sendDeploymentNotification posts to.
\* trace: the responses and the operations started, in the order the
\* handler performed them.  slack, notion and hint are the states of the
\* announcement publish, the ledger create and the hint message.
\* anchor is the thread_ts of the result of sendDeploymentNotification.
IdlePush ==
  [pc |-> "idle", res |-> <<>>, dep |-> NoDeployment, trace |-> <<>>,
   slack |-> "none", anchor |-> "none", notion |-> "none", hint |-> "none",
   destination |-> "none"]

Respond(f, status, body) ==
  [f EXCEPT !.res = Append(@, Response(status, body)),
            !.trace = Append(@, "respond")]

\* A filter that lets hotfix branches through as well.
isDeploymentBranch_hotfix(branch) ==
  StartsWith(branch, FeaturePrefix) \/ branch = Develop \/ branch = Main
    \/ StartsWith(branch, <<"h", "o", "t", "f", "i", "x">>)

isDeploymentBranch(branch) ==
  StartsWith(branch, FeaturePrefix) \/ branch = Develop \/ branch = Main

\* createDeploymentRecord up to its request: without the ledger
\* configuration it answers null at once.
createDeploymentRecord(f) ==
  [f EXCEPT !.trace = Append(@, "createDeploymentRecord"),
            !.notion = IF env.NOTION THEN "creating" ELSE "null"]

\* sendDeploymentNotification up to the announcement post.
sendDeploymentNotification(f) ==
  [f EXCEPT !.trace = Append(@, "sendDeploymentNotification"),
            !.destination = getChannelForBranch(f.dep.branch),
            !.slack = "posting"]

\* The .then callback of Promise.all, once both results are in: the hint
\* message is posted, without awaiting it, when the announcement was.
fanOutJoined(f) ==
  IF f.slack \in {"ok", "failed"} /\ f.notion \in {"created", "null"}
  THEN IF f.slack = "ok"
       THEN [f EXCEPT !.trace = Append(@, "postThreadUpdate"), !.hint = "posting"]
       ELSE [f EXCEPT !.pc = "done"]
  ELSE f

\* A handler that starts the fan-out before it responds.
acknowledgeThenFanOut_awaitFirst(f) ==
  Respond(fanOutJoined(createDeploymentRecord(sendDeploymentNotification(f))),
          200, "received")

\* The 200 'received' response, then Promise.all over the two operations.
acknowledgeThenFanOut(f) ==
  fanOutJoined(createDeploymentRecord(sendDeploymentNotification(
    Respond(f, 200, "received"))))

\* The route handler up to the end of its synchronous run.
githubWebhook(f, req) ==
  LET verified == verifyGitHubSignature(req, GitHubWebhookSecret)
      body == JSONparse(req.raw)
      branch == ReplaceFirst(body.ref, RefsHeads, <<>>)
  IN  IF verified = "throw"
      THEN [Respond(f, 500, "error") EXCEPT !.pc = "done"]
      ELSE IF verified = "false"
      THEN [Respond(f, 401, "Invalid signature") EXCEPT !.pc = "done"]
      ELSE IF req.event # "push"
      THEN [Respond(f, 200, "ignored") EXCEPT !.pc = "done"]
      ELSE IF ~isDeploymentBranch(branch)
      THEN [Respond(f, 200, "ignored") EXCEPT !.pc = "done"]
      ELSE IF body.commits = <<>>
      \* reading latest_commit.id throws
      THEN [Respond(f, 500, "error") EXCEPT !.pc = "done"]
      ELSE LET latest_commit == body.commits[Len(body.commits)]
               deployment_data ==
                 [repository |-> body.repository,
                  branch |-> branch,
                  commit_sha |-> Substring0(latest_commit.id, ShortShaLen),
                  commit_message |-> FirstLine(latest_commit.message),
                  commit_author |-> latest_commit.author,
                  deployment_id |-> DeploymentIdFor(branch, now)]
           IN  acknowledgeThenFanOut(
                 [f EXCEPT !.dep = deployment_data, !.pc = "async"])

GitHubWebhookPost(p) ==
  /\ px[p].pc = "idle"
  /\ \A q \in Pushes : q < p => px[q].pc # "idle"
  /\ \E req \in PushRequests :
       /\ px' = [px EXCEPT ![p] = githubWebhook(@, req)]
       /\ lastPush' = [slot |-> p, req |-> req]
  /\ UNCHANGED <<now, env, channel, ledger, rx, lastReq, rt, pf, pm>>

\* A notification that gives up without the INCIDENTS post.
publishReturned_noIncident(f, ok, ts) ==
  IF ok THEN [f EXCEPT !.slack = "ok", !.anchor = ts]
  ELSE [f EXCEPT !.slack = "failed", !.anchor = "null"]

\* sendDeploymentNotification after its announcement post returned: the
\* result {success: true, thread_ts: result.ts}, or the catch block up to
\* the INCIDENTS post.
publishReturned(f, ok, ts) ==
  IF ok THEN [f EXCEPT !.slack = "ok", !.anchor = ts]
  ELSE [f EXCEPT !.slack = "incident", !.trace = Append(@, "incidentPost")]

\* sendDeploymentNotification after the INCIDENTS post returned or threw:
\* the result {success: false, thread_ts: null}.
incidentReturned(f, ok) == [f EXCEPT !.slack = "failed", !.anchor = "null"]

\* The announcement post returns: on success the message is in the channel
\* under its own timestamp; on failure the INCIDENTS post is issued.
PublishReturns(p, ok) ==
  /\ px[p].slack = "posting"
  /\ LET f == px[p]
         ts == IF p = 1 THEN "P1" ELSE IF p = 2 THEN "P2" ELSE "P3"
     IN  /\ px' = [px EXCEPT ![p] = fanOutJoined(publishReturned(f, ok, ts))]
         /\ channel' = IF ok
                       THEN [m \in DOMAIN channel \cup {ts} |->
                               IF m = ts THEN [kind |-> "announcement", dep |-> f.dep]
                               ELSE channel[m]]
                       ELSE channel
  /\ UNCHANGED <<now, env, ledger, rx, lastReq, lastPush, rt, pf, pm>>

\* The INCIDENTS post returns; its failure is logged only.
IncidentPostReturns(p, ok) ==
  /\ px[p].slack = "incident"
  /\ px' = [px EXCEPT ![p] = fanOutJoined(incidentReturned(@, ok))]
  /\ UNCHANGED <<now, env, channel, ledger, rx, lastReq, lastPush, rt, pf, pm>>

\* The ledger create returns: a page on success, null on failure.
LedgerCreateReturns(p, ok) ==
  /\ px[p].notion = "creating"
  /\ LET f == px[p]
         id == f.dep.deployment_id
     IN  /\ px' = [px EXCEPT ![p] =
                     fanOutJoined([f EXCEPT !.notion = IF ok THEN "created" ELSE "null"])]
         /\ ledger' = IF ok /\ id \notin DOMAIN ledger
                      THEN [k \in DOMAIN ledger \cup {id} |->
                              IF k = id THEN PendingEntry ELSE ledger[k]]
                      ELSE ledger
  /\ UNCHANGED <<now, env, channel, rx, lastReq, lastPush, rt, pf, pm>>

\* The hint message returns; its failure is logged only.
HintPostReturns(p, ok) ==
  /\ px[p].hint = "posting"
  /\ px' = [px EXCEPT ![p] = [@ EXCEPT !.hint = IF ok THEN "ok" ELSE "failed",
                                       !.pc = "done"]]
  /\ UNCHANGED <<now, env, channel, ledger, rx, lastReq, lastPush, rt, pf, pm>>

Tick ==
  /\ now < StartMillis + MaxTicks
  /\ now' = now + 1
  /\ UNCHANGED <<env, channel, ledger, rx, lastReq, px, lastPush, rt, pf, pm>>

(***************************************************************************)
(* retryWithBackoff(fn, maxAttempts, initialDelayMs).  The k-th invocation *)
(* of fn resolves with the value of k or rejects with the error of k, so   *)
(* that what the function returns or throws tells the invocation it came   *)
(* from.  clock counts milliseconds from the call.                         *)
(***************************************************************************)
MaxAttemptsBound == 4
MaxInitialDelay == 2
MaxTimerLag == 1

RECURSIVE Pow2(_)
Pow2(n) == IF n <= 0 THEN 1 ELSE 2 * Pow2(n - 1)

ValueOf(k) == [kind |-> "value", of |-> k]
ErrorOf(k) == [kind |-> "error", of |-> k]
Undefined == [kind |-> "undefined", of |-> 0]

\* starts are the times fn was invoked, ends the times and the outcomes of
\* its settling; delays are the
\* delays handed to setTimeout, due is the time the pending timer fires.
IdleRetry ==
  [pc |-> "idle", maxAttempts |-> 0, initialDelayMs |-> 0, attempt |-> 0,
   clock |-> 0, due |-> 0, inflight |-> 0, starts |-> <<>>, ends |-> <<>>,
   delays |-> <<>>, lastError |-> Undefined, outcome |-> "pending",
   result |-> Undefined]

\* A linear backoff.
backoffDelay_linear(initialDelayMs, attempt) == initialDelayMs * attempt

\* delayMs = initialDelayMs * Math.pow(2, attempt - 1)
backoffDelay(initialDelayMs, attempt) == initialDelayMs * Pow2(attempt - 1)

\* The head of the for loop: the next invocation of fn, or 'throw lastError'
\* after the loop.
loopHead(r) ==
  IF r.attempt <= r.maxAttempts
  THEN [r EXCEPT !.pc = "running", !.inflight = @ + 1,
                 !.starts = Append(@, r.clock)]
  ELSE [r EXCEPT !.pc = "threw", !.outcome = "throw", !.result = r.lastError]

Settled(r, ok) == [at |-> r.clock, ok |-> ok]

\* A loop that goes on after a success.
fnResolved_keepsGoing(r) ==
  loopHead([r EXCEPT !.inflight = @ - 1, !.ends = Append(@, Settled(r, TRUE)),
                     !.attempt = @ + 1])

\* 'return await fn()' when fn resolved.
fnResolved(r) ==
  [r EXCEPT !.pc = "returned", !.inflight = @ - 1,
            !.ends = Append(@, Settled(r, TRUE)), !.outcome = "return",
            !.result = ValueOf(r.attempt)]

\* A catch block that keeps the first error.
fnRejected_firstError(r) ==
  LET g == [r EXCEPT !.inflight = @ - 1, !.ends = Append(@, Settled(r, FALSE)),
                     !.lastError = IF @ = Undefined THEN ErrorOf(r.attempt) ELSE @]
      delayMs == backoffDelay(g.initialDelayMs, g.attempt)
  IN  IF g.attempt < g.maxAttempts
      THEN [g EXCEPT !.pc = "waiting", !.delays = Append(@, delayMs),
                     !.due = g.clock + delayMs]
      ELSE loopHead([g EXCEPT !.attempt = @ + 1])

\* A catch block that starts the next attempt without waiting for the timer.
fnRejected_noWait(r) ==
  LET g == [r EXCEPT !.inflight = @ - 1, !.ends = Append(@, Settled(r, FALSE)),
                     !.lastError = ErrorOf(r.attempt)]
      delayMs == backoffDelay(g.initialDelayMs, g.attempt)
  IN  IF g.attempt < g.maxAttempts
      THEN loopHead([g EXCEPT !.delays = Append(@, delayMs),
                              !.attempt = @ + 1])
      ELSE loopHead([g EXCEPT !.attempt = @ + 1])

\* The catch block when fn rejected: the error is kept, and unless this was
\* the last attempt the backoff timer is set.
fnRejected(r) ==
  LET g == [r EXCEPT !.inflight = @ - 1, !.ends = Append(@, Settled(r, FALSE)),
                     !.lastError = ErrorOf(r.attempt)]
      delayMs == backoffDelay(g.initialDelayMs, g.attempt)
  IN  IF g.attempt < g.maxAttempts
      THEN [g EXCEPT !.pc = "waiting", !.delays = Append(@, delayMs),
                     !.due = g.clock + delayMs]
      ELSE loopHead([g EXCEPT !.attempt = @ + 1])

RetryStarts ==
  /\ rt.pc = "idle"
  /\ rt' = loopHead([rt EXCEPT !.attempt = 1])
  /\ UNCHANGED <<now, env, channel, ledger, rx, lastReq, px, lastPush, pf, pm>>

FnResolves ==
  /\ rt.pc = "running"
  /\ rt' = fnResolved(rt)
  /\ UNCHANGED <<now, env, channel, ledger, rx, lastReq, px, lastPush, pf, pm>>

FnRejects ==
  /\ rt.pc = "running"
  /\ rt' = fnRejected(rt)
  /\ UNCHANGED <<now, env, channel, ledger, rx, lastReq, px, lastPush, pf, pm>>

\* The setTimeout callback resolves the awaited promise: the loop goes on.
TimerFires ==
  /\ rt.pc = "waiting"
  /\ rt.clock >= rt.due
  /\ rt' = loopHead([rt EXCEPT !.attempt = @ + 1])
  /\ UNCHANGED <<now, env, channel, ledger, rx, lastReq, px, lastPush, pf, pm>>

\* A millisecond passes: while the timer is pending (the callback may run
\* late), or once while fn runs.
RetryTick ==
  /\ \/ rt.pc = "waiting" /\ rt.clock < rt.due + MaxTimerLag
     \/ rt.pc = "running" /\ rt.clock = rt.starts[Len(rt.starts)]
  /\ rt' = [rt EXCEPT !.clock = @ + 1]
  /\ UNCHANGED <<now, env, channel, ledger, rx, lastReq, px, lastPush, pf, pm>>

(***************************************************************************)
(* Calls of the pure functions: getChannelForBranch on a branch name and   *)
(* extractDeploymentId on a message text.                                  *)
(***************************************************************************)
IdlePure ==
  [fn |-> "none", branch |-> <<>>, text |-> JsUndefined, dest |-> "none",
   id |-> <<>>, done |-> FALSE]

BranchHeads ==
  {<<>>, FeaturePrefix, <<"f", "e", "a", "t", "u", "r", "e">>, <<"F", "e", "a", "t", "u", "r", "e", "/">>,
   Develop, Main, <<"h", "o", "t", "f", "i", "x">>, RefsHeads}

BranchTails ==
  {<<>>, <<"x">>, <<"/", "x">>, Main, Develop, <<"-", "1">>, FeaturePrefix,
   <<"_", "b", ".", "c">>}

BranchInputs == {a \o b : a \in BranchHeads, b \in BranchTails}

GetChannelForBranchReturns ==
  /\ pf.fn = "getChannelForBranch" /\ ~pf.done
  /\ pf' = [pf EXCEPT !.dest = getChannelForBranch(pf.branch), !.done = TRUE]
  /\ UNCHANGED <<now, env, channel, ledger, rx, lastReq, px, lastPush, rt, pm>>

\* The announcement of a deployment of the branch, pushed at StartMillis.
DeploymentOf(branch) ==
  [FirstDeployment EXCEPT !.branch = branch,
                          !.deployment_id = DeploymentIdFor(branch, StartMillis)]

\* Branches that pass the filter of the router.
AnnouncedBranches ==
  {Main, Develop, FeaturePrefix \o <<"x">>,
   FeaturePrefix \o <<"a", "/", "b">>,
   FeaturePrefix \o <<"-", "1">>,
   FeaturePrefix \o <<"_", "b", ".", "c">>}

Texts ==
  {<<>>, ChatText, DeployPrefix,
   <<"d", "e", "p", "l", "o", "y", "-", "f", "e", "a", "t", "u", "r", "e", "/", "n", "e", "w", "-", "f", "e", "a", "t", "u", "r", "e", "-", "1", "2", "3", "4", "5", "6", "7", "8", "9", "0">>,
   <<"s", "e", "e", " ", "d", "e", "p", "l", "o", "y", "-", "m", "a", "i", "n", "-", "1", "7", " ", "a", "n", "d", " ", "d", "e", "p", "l", "o", "y", "-", "d", "e", "v", "e", "l", "o", "p", "-", "1", "8", ".">>,
   <<"d", "e", "p", "l", "o", "y", "-", "-", "1">>,
   <<"d", "e", "p", "l", "o", "y", "-", "m", "a", "i", "n", "-">>,
   <<"x", "d", "e", "p", "l", "o", "y", "-", "a", "-", "b", "-", "1", "2", "-", "c">>}
    \cup {AnnouncementText(DeploymentOf(b)) : b \in AnnouncedBranches}

TextInputs == {JsNull, JsUndefined} \cup {JsString(t) : t \in Texts}

ExtractDeploymentIdReturns ==
  /\ pf.fn = "extractDeploymentId" /\ ~pf.done
  /\ pf' = [pf EXCEPT !.id = extractDeploymentId(pf.text), !.done = TRUE]
  /\ UNCHANGED <<now, env, channel, ledger, rx, lastReq, px, lastPush, rt, pm>>

PureInputs ==
  {[IdlePure EXCEPT !.fn = "getChannelForBranch", !.branch = b] :
     b \in BranchInputs}
    \cup {[IdlePure EXCEPT !.fn = "extractDeploymentId", !.text = t] :
            t \in TextInputs}

(***************************************************************************)
(* The PM agent: reviewDeployment and the functions it calls.  A           *)
(* confidence is held in hundredths.                                       *)
(***************************************************************************)
ConfidenceThreshold == 80

Master == <<"m", "a", "s", "t", "e", "r">>

NoAnalysis == <<"N", "o", " ", "a", "n", "a", "l", "y", "s", "i", "s", " ", "a", "v", "a", "i", "l", "a", "b", "l", "e">>

Confidence(kind, hundredths) == [kind |-> kind, hundredths |-> hundredths]

NoDecision == [decision |-> "undefined", confidence |-> Confidence("undefined", 0)]

NoResult == [success |-> "none", autoApproved |-> "none", defaultToHumanApproval |-> "none"]

\* calls: the calls reviewDeployment has made, in order.  answers: what the
\* record fetch and the model call answered.  dispatch: what became of the
\* CI dispatch; deploymentResult: the success field of the result of the
\* agent's triggerGitHubDeployment.
IdlePM ==
  [pc |-> "idle", ENABLE_AUTO_APPROVAL |-> "true", deploymentId |-> <<>>,
   stored |-> [branch |-> JsUndefined, notes |-> JsUndefined],
   branch |-> JsUndefined, devAgentNotes |-> <<>>,
   response |-> NoDecision, decision |-> NoDecision,
   devDecision |-> [risk_level |-> "none", recommendation |-> "none"],
   canAutoApprove |-> FALSE, calls |-> <<>>, answers |-> <<>>,
   dispatch |-> "none", deploymentResult |-> "none", result |-> NoResult]

MatchesAt(text, i, part) ==
  /\ i + Len(part) - 1 <= Len(text)
  /\ SubSeq(text, i, i + Len(part) - 1) = part

\* text.match(/<label>(<word>|...)/): the captured word of the leftmost
\* match, or the default without a match.
FirstCapture(text, label, words, default) ==
  LET Hits == {i \in 1..Len(text) :
                 \E w \in words : MatchesAt(text, i, label \o w.word)}
  IN  IF Hits = {} THEN default
      ELSE LET i == CHOOSE x \in Hits : \A y \in Hits : x <= y
           IN  (CHOOSE w \in words : MatchesAt(text, i, label \o w.word)).name

RiskLevelLabel == <<"R", "i", "s", "k", " ", "L", "e", "v", "e", "l", ":", " ">>

RiskLevels ==
  {[word |-> <<"L", "O", "W">>, name |-> "LOW"],
   [word |-> <<"M", "E", "D", "I", "U", "M">>, name |-> "MEDIUM"],
   [word |-> <<"H", "I", "G", "H">>, name |-> "HIGH"]}

RecommendationLabel == <<"R", "e", "c", "o", "m", "m", "e", "n", "d", "a", "t", "i", "o", "n", ":", " ">>

Recommendations ==
  {[word |-> <<"A", "P", "P", "R", "O", "V", "E">>, name |-> "APPROVE"],
   [word |-> <<"R", "E", "V", "I", "E", "W">>, name |-> "REVIEW"],
   [word |-> <<"B", "L", "O", "C", "K">>, name |-> "BLOCK"]}

extractDevDecision(devNotes) ==
  [risk_level |-> FirstCapture(devNotes, RiskLevelLabel, RiskLevels, "MEDIUM"),
   recommendation |->
     FirstCapture(devNotes, RecommendationLabel, Recommendations, "REVIEW")]

\* pmDecision.confidence >= 0.8: a numeric string is converted, undefined
\* becomes NaN and compares false.
AtLeastThreshold(confidence) ==
  confidence.kind \in {"number", "string"}
    /\ confidence.hundredths >= ConfidenceThreshold

\* A decision function without the test of the branch.
shouldAutoApprove_anyBranch(context, devDecision, pmDecision) ==
  IF pm.ENABLE_AUTO_APPROVAL # "true" THEN FALSE
  ELSE /\ devDecision.risk_level = "LOW"
       /\ pmDecision.decision = "AUTO_APPROVE"
       /\ AtLeastThreshold(pmDecision.confidence)

shouldAutoApprove(context, devDecision, pmDecision) ==
  IF pm.ENABLE_AUTO_APPROVAL # "true" THEN FALSE
  ELSE /\ devDecision.risk_level = "LOW"
       /\ pmDecision.decision = "AUTO_APPROVE"
       /\ AtLeastThreshold(pmDecision.confidence)
       /\ context.branch # JsString(Main)
       /\ context.branch # JsString(Master)

\* The response of the model: prose without JSON, or a JSON object in a
\* code block or inline.  extractDecision answers null for the first and
\* the parsed object for the others.
\* An extraction that answers an empty object for prose.
extractDecision_emptyObject(responseText) ==
  [parsed |-> TRUE, value |-> responseText.json]

extractDecision(responseText) ==
  IF responseText.form = "prose" THEN [parsed |-> FALSE, value |-> NoDecision]
  ELSE [parsed |-> TRUE, value |-> responseText.json]

\* A validation that keeps a confidence that is not a number.
validated_keepsConfidence(decision) ==
  [decision |-> IF decision.decision \in {"AUTO_APPROVE", "HUMAN_REVIEW"}
                THEN decision.decision ELSE "HUMAN_REVIEW",
   confidence |-> decision.confidence]

\* The validation of the decision format.
validated(decision) ==
  [decision |-> IF decision.decision \in {"AUTO_APPROVE", "HUMAN_REVIEW"}
                THEN decision.decision ELSE "HUMAN_REVIEW",
   confidence |-> IF decision.confidence.kind = "number"
                  THEN decision.confidence ELSE Confidence("number", 0)]

CallPM(f, call, pc) == [f EXCEPT !.calls = Append(@, call), !.pc = pc]

\* The catch block up to its post.
reviewFailed(f) == CallPM(f, "postAgentUpdate: review failed", "failedPost")

StoredBranches ==
  {JsUndefined, JsString(Main), JsString(Master), JsString(Develop),
   JsString(FeaturePrefix \o <<"x">>)}

StoredNotes ==
  {JsUndefined,
   JsString(<<"R", "i", "s", "k", " ", "L", "e", "v", "e", "l", ":", " ", "L", "O", "W", "\n", "R", "e", "c", "o", "m", "m", "e", "n", "d", "a", "t", "i", "o", "n", ":", " ", "A", "P", "P", "R", "O", "V", "E">>),
   JsString(<<"R", "i", "s", "k", " ", "L", "e", "v", "e", "l", ":", " ", "H", "I", "G", "H", "\n", "R", "e", "c", "o", "m", "m", "e", "n", "d", "a", "t", "i", "o", "n", ":", " ", "B", "L", "O", "C", "K">>),
   JsString(<<"r", "i", "s", "k", " ", "l", "e", "v", "e", "l", ":", " ", "l", "o", "w">>),
   JsString(<<"R", "i", "s", "k", " ", "L", "e", "v", "e", "l", ":", " ", "M", "E", "D", "I", "U", "M", ",", " ", "n", "o", "t", " ", "R", "i", "s", "k", " ", "L", "e", "v", "e", "l", ":", " ", "L", "O", "W">>)}

Flags == {"true", "false", "undefined"}

PMInputs ==
  {[IdlePM EXCEPT !.ENABLE_AUTO_APPROVAL = e,
                  !.deploymentId = FirstDeployment.deployment_id,
                  !.stored = [branch |-> b, notes |-> n]] :
     e \in Flags, b \in StoredBranches, n \in StoredNotes}

Decisions ==
  {[decision |-> d, confidence |-> c] :
     d \in {"AUTO_APPROVE", "HUMAN_REVIEW", "APPROVE", "undefined"},
     c \in {Confidence("number", 0), Confidence("number", ConfidenceThreshold - 1),
            Confidence("number", ConfidenceThreshold), Confidence("number", 100),
            Confidence("string", 90), Confidence("undefined", 0)}}

ClaudeResults ==
  {[success |-> FALSE, text |-> [form |-> "prose", json |-> NoDecision]],
   [success |-> TRUE, text |-> [form |-> "prose", json |-> NoDecision]]}
    \cup {[success |-> TRUE, text |-> [form |-> f, json |-> d]] :
            f \in {"code block", "inline"}, d \in Decisions}

\* reviewDeployment is called: the status post is issued.
ReviewStarts ==
  /\ pm.pc = "idle" /\ pm.deploymentId # <<>>
  /\ pm' = CallPM(pm, "postAgentUpdate: reviewing", "statusPost")
  /\ UNCHANGED <<now, env, channel, ledger, rx, lastReq, px, lastPush, rt, pf>>

\* postAgentUpdate never throws; the record is fetched next.
StatusPostReturns ==
  /\ pm.pc = "statusPost"
  /\ pm' = CallPM(pm, "getDeploymentRecord", "fetch")
  /\ UNCHANGED <<now, env, channel, ledger, rx, lastReq, px, lastPush, rt, pf>>

\* getDeploymentRecord answers the record or null, or throws.
RecordReturns(outcome) ==
  /\ pm.pc = "fetch"
  /\ pm' = IF outcome = "record"
            THEN CallPM([pm EXCEPT
                           !.answers = Append(@, outcome),
                           !.branch = pm.stored.branch,
                           !.devAgentNotes =
                             IF Falsy(pm.stored.notes) THEN NoAnalysis
                             ELSE pm.stored.notes.text],
                        "callClaude", "claude")
            ELSE reviewFailed([pm EXCEPT !.answers = Append(@, outcome)])
  /\ UNCHANGED <<now, env, channel, ledger, rx, lastReq, px, lastPush, rt, pf>>

\* callClaude returns; the decision is extracted and validated and the
\* notes of the PM agent are written.
ClaudeReturns(claudeResult) ==
  /\ pm.pc = "claude"
  /\ LET extracted == extractDecision(claudeResult.text)
         f == [pm EXCEPT !.answers =
                 Append(@, IF claudeResult.success THEN claudeResult.text.form
                           ELSE "api error")]
     IN  pm' = IF ~claudeResult.success \/ ~extracted.parsed
               THEN reviewFailed(f)
               ELSE CallPM([f EXCEPT !.response = extracted.value,
                                      !.decision = validated(extracted.value)],
                           "updateNotionNotes", "notes")
  /\ UNCHANGED <<now, env, channel, ledger, rx, lastReq, px, lastPush, rt, pf>>

\* updateNotionNotes never throws; the decision is taken and announced.
NotesReturns ==
  /\ pm.pc = "notes"
  /\ LET context == [branch |-> pm.branch]
         devDecision == extractDevDecision(pm.devAgentNotes)
         canAutoApprove == shouldAutoApprove(context, devDecision, pm.decision)
         f == [pm EXCEPT !.devDecision = devDecision,
                         !.canAutoApprove = canAutoApprove]
     IN  pm' = IF canAutoApprove
               THEN CallPM(f, "postAgentUpdate: auto-approved", "approvedPost")
               ELSE CallPM(f, "postAgentUpdate: human approval required",
                           "humanPost")
  /\ UNCHANGED <<now, env, channel, ledger, rx, lastReq, px, lastPush, rt, pf>>

ApprovedPostReturns ==
  /\ pm.pc = "approvedPost"
  /\ pm' = CallPM(pm, "updateDeploymentApproval", "approval")
  /\ UNCHANGED <<now, env, channel, ledger, rx, lastReq, px, lastPush, rt, pf>>

\* The end of the auto-approval branch: the result of the trigger is
\* logged only.
autoApproved(f, success) ==
  [f EXCEPT !.pc = "returned",
            !.deploymentResult = success,
            !.result = [success |-> "true", autoApproved |-> "true",
                        defaultToHumanApproval |-> "undefined"]]

\* triggerDeployment of the reactions handler: {success: true} when
\* triggerGitHubDeployment resolves, whatever it resolves with,
\* {success: false, error} when it rejects.
triggerDeployment(f, outcome) ==
  [success |-> IF outcome = "rejected" THEN "false" ELSE "true"]

\* triggerGitHubDeployment of the agent: {success: true} unless the result
\* of triggerDeployment has success false.
agentTriggerReturned(f, outcome) ==
  autoApproved(f, triggerDeployment(f, outcome).success)

\* The agent's trigger up to the first awaited call of the trigger chain:
\* the manual command without the configuration, a rejection when
\* https.request throws on the path, the dispatch request otherwise.
agentTriggerStarts(f) ==
  LET g == CallPM(f, "triggerDeployment", "trigger")
  IN  IF ~DispatchConfigured
      THEN CallPM([g EXCEPT !.dispatch = "unconfigured"],
                  "postDeploymentCommand", "manualCommand")
      ELSE IF ~RequestPathAccepted
      THEN agentTriggerReturned([g EXCEPT !.dispatch = "threw"], "rejected")
      ELSE CallPM(g, "github.dispatch", "dispatch")

\* updateDeploymentApproval returns true after its PATCH, false otherwise;
\* the deployment is triggered whatever it returned.
ApprovalReturns(ok) ==
  /\ pm.pc = "approval"
  /\ pm' = agentTriggerStarts(pm)
  /\ ledger' = IF ok /\ pm.deploymentId \in DOMAIN ledger
                THEN [ledger EXCEPT ![pm.deploymentId] =
                        patchEntry(@, "Approved", "PM Agent (Auto)", now)]
                ELSE ledger
  /\ UNCHANGED <<now, env, channel, rx, lastReq, px, lastPush, rt, pf>>

\* postDeploymentCommand returns (it catches its own errors) and
\* triggerGitHubDeployment resolves with undefined.
ManualCommandReturns ==
  /\ pm.pc = "manualCommand"
  /\ pm' = agentTriggerReturned(pm, "undefined")
  /\ UNCHANGED <<now, env, channel, ledger, rx, lastReq, px, lastPush, rt, pf>>

\* The dispatch request ends: a 2xx response posts the success reply and
\* resolves true; another status or a request error posts the manual
\* command and resolves false.  Neither post is awaited.
TriggerReturns(outcome) ==
  /\ pm.pc = "dispatch"
  /\ LET f == [pm EXCEPT !.dispatch = outcome,
                         !.calls = Append(@, IF outcome = "accepted"
                                             THEN "chat.postMessage: success"
                                             ELSE "postDeploymentCommand")]
     IN  pm' = agentTriggerReturned(f, IF outcome = "accepted" THEN "true" ELSE "false")
  /\ UNCHANGED <<now, env, channel, ledger, rx, lastReq, px, lastPush, rt, pf>>

HumanPostReturns ==
  /\ pm.pc = "humanPost"
  /\ pm' = [pm EXCEPT !.pc = "returned",
                       !.result = [success |-> "true", autoApproved |-> "false",
                                   defaultToHumanApproval |-> "undefined"]]
  /\ UNCHANGED <<now, env, channel, ledger, rx, lastReq, px, lastPush, rt, pf>>

FailedPostReturns ==
  /\ pm.pc = "failedPost"
  /\ pm' = [pm EXCEPT !.pc = "returned",
                       !.result = [success |-> "false", autoApproved |-> "undefined",
                                   defaultToHumanApproval |-> "true"]]
  /\ UNCHANGED <<now, env, channel, ledger, rx, lastReq, px, lastPush, rt, pf>>

(***************************************************************************)
(* Initial state and the specification of the chat events pipeline.        *)
(***************************************************************************)
\* The signing secret is configured; the dispatch repository (with its
\* token) may be unset, well-formed, or a name with a space in it; the ledger
\* token and database may be configured or not.
Environments ==
  [SLACK_SIGNING_SECRET : {TRUE}, GITHUB_REPO : {"", "o/r", "o/my r"},
   NOTION : BOOLEAN]

InitialLedgers ==
  {<<>>, [id \in {FirstDeployment.deployment_id} |-> PendingEntry]}

Init ==
  /\ now = StartMillis
  /\ env \in Environments
  /\ channel = [m \in {"M0", "M1"} |->
                  IF m = "M1" THEN [kind |-> "announcement", dep |-> FirstDeployment]
                  ELSE [kind |-> "chat", dep |-> FirstDeployment]]
  /\ ledger \in (IF env.NOTION THEN InitialLedgers ELSE {<<>>})
  /\ rx = [h \in Handlers |-> IdleFrame]
  /\ lastReq = [slot |-> 0, req |-> NoRequest]
  /\ px = [p \in Pushes |-> IdlePush]
  /\ lastPush = [slot |-> 0, req |-> NoPushRequest]
  /\ rt = IdleRetry
  /\ pf = IdlePure
  /\ pm = IdlePM

Next ==
  \/ \E h \in Handlers : SlackEventsPost(h)
  \/ \E h \in Handlers : \E ok \in BOOLEAN : UsersInfoReturns(h, ok)
  \/ \E h \in Handlers : \E ok \in BOOLEAN : HistoryReturns(h, ok)
  \/ \E h \in Handlers : \E ok \in BOOLEAN : ReplyReturns(h, ok)
  \/ \E h \in Handlers : \E ok \in BOOLEAN : NotionQueryReturns(h, ok)
  \/ \E h \in Handlers : \E ok \in BOOLEAN : NotionPatchReturns(h, ok)
  \/ \E h \in Handlers : \E outcome \in {"2xx", "non2xx", "error"} :
       DispatchReturns(h, outcome)
  \/ \E h \in Handlers : \E ok \in BOOLEAN : LastPostReturns(h, ok)

Spec == Init /\ [][Next]_vars

\* The chat events pipeline with the ledger and the dispatch configured and
\* the first deployment in the ledger.
InitConfigured ==
  Init /\ env.NOTION /\ env.GITHUB_REPO = "o/r" /\ DOMAIN ledger # {}

SpecConfigured == InitConfigured /\ [][Next]_vars

(***************************************************************************)
(* The specification of the push webhook.                                  *)
(***************************************************************************)
NextPush ==
  \/ \E p \in Pushes : GitHubWebhookPost(p)
  \/ \E p \in Pushes : \E ok \in BOOLEAN : PublishReturns(p, ok)
  \/ \E p \in Pushes : \E ok \in BOOLEAN : IncidentPostReturns(p, ok)
  \/ \E p \in Pushes : \E ok \in BOOLEAN : LedgerCreateReturns(p, ok)
  \/ \E p \in Pushes : \E ok \in BOOLEAN : HintPostReturns(p, ok)
  \/ Tick

InitPush == Init /\ env.GITHUB_REPO = "o/r"

SpecPush == InitPush /\ [][NextPush]_vars

(***************************************************************************)
(* The specification of one call of retryWithBackoff.                      *)
(***************************************************************************)
RetryInputs ==
  {[IdleRetry EXCEPT !.maxAttempts = n, !.initialDelayMs = d] :
     n \in 0..MaxAttemptsBound, d \in 1..MaxInitialDelay}

InitRetry ==
  /\ now = StartMillis
  /\ env = [SLACK_SIGNING_SECRET |-> TRUE, GITHUB_REPO |-> "o/r", NOTION |-> FALSE]
  /\ channel = <<>>
  /\ ledger = <<>>
  /\ rx = [h \in Handlers |-> IdleFrame]
  /\ lastReq = [slot |-> 0, req |-> NoRequest]
  /\ px = [p \in Pushes |-> IdlePush]
  /\ lastPush = [slot |-> 0, req |-> NoPushRequest]
  /\ rt \in RetryInputs
  /\ pf = IdlePure
  /\ pm = IdlePM

NextRetry ==
  \/ RetryStarts
  \/ FnResolves
  \/ FnRejects
  \/ TimerFires
  \/ RetryTick

SpecRetry == InitRetry /\ [][NextRetry]_vars

InitPure ==
  /\ now = StartMillis
  /\ env = [SLACK_SIGNING_SECRET |-> TRUE, GITHUB_REPO |-> "o/r", NOTION |-> FALSE]
  /\ channel = <<>>
  /\ ledger = <<>>
  /\ rx = [h \in Handlers |-> IdleFrame]
  /\ lastReq = [slot |-> 0, req |-> NoRequest]
  /\ px = [p \in Pushes |-> IdlePush]
  /\ lastPush = [slot |-> 0, req |-> NoPushRequest]
  /\ rt = IdleRetry
  /\ pf \in PureInputs
  /\ pm = IdlePM

NextPure ==
  \/ GetChannelForBranchReturns
  \/ ExtractDeploymentIdReturns

SpecPure == InitPure /\ [][NextPure]_vars

InitPM ==
  /\ now = StartMillis
  /\ env \in {e \in Environments : e.NOTION}
  /\ channel = <<>>
  /\ ledger \in InitialLedgers
  /\ rx = [h \in Handlers |-> IdleFrame]
  /\ lastReq = [slot |-> 0, req |-> NoRequest]
  /\ px = [p \in Pushes |-> IdlePush]
  /\ lastPush = [slot |-> 0, req |-> NoPushRequest]
  /\ rt = IdleRetry
  /\ pf = IdlePure
  /\ pm \in PMInputs

NextPM ==
  \/ ReviewStarts
  \/ StatusPostReturns
  \/ \E outcome \in {"record", "null", "throw"} : RecordReturns(outcome)
  \/ \E claudeResult \in ClaudeResults : ClaudeReturns(claudeResult)
  \/ NotesReturns
  \/ ApprovedPostReturns
  \/ \E ok \in BOOLEAN : ApprovalReturns(ok)
  \/ ManualCommandReturns
  \/ \E outcome \in {"accepted", "refused", "error"} : TriggerReturns(outcome)
  \/ HumanPostReturns
  \/ FailedPostReturns

SpecPM == InitPM /\ [][NextPM]_vars

(***************************************************************************)
(* The push webhook and the chat events endpoint together: a verified push *)
(* to main, and reactions on the announcement of that push once it is in   *)
(* the channel.                                                            *)
(***************************************************************************)
PushAnnouncement == [type |-> "message", channel |-> "C_PROD", ts |-> "P1"]

ReactionsOnPush ==
  {[ts |-> Timestamp(NowSecs),
    sig |-> SlackSignature(SlackSigningSecret, Timestamp(NowSecs), b),
    body |-> b] :
     b \in {[type |-> "event_callback",
             event |-> [type |-> "reaction_added", user |-> "U1",
                        reaction |-> r, item |-> PushAnnouncement]] :
              r \in {"white_check_mark", "x"}}}

VerifiedPushes ==
  {[sig |-> GitHubSignature(GitHubWebhookSecret, JSONstringify(RepresentativePush)),
    event |-> "push", delivery |-> "dlv-1",
    raw |-> JSONstringify(RepresentativePush)]}

\* The one push of the run arrives.
VerifiedPushArrives(p) ==
  /\ \A q \in Pushes : px[q].pc = "idle"
  /\ \A q \in Pushes : p <= q
  /\ \E req \in VerifiedPushes :
       /\ px' = [px EXCEPT ![p] = githubWebhook(@, req)]
       /\ lastPush' = [slot |-> p, req |-> req]
  /\ UNCHANGED <<now, env, channel, ledger, rx, lastReq, rt, pf, pm>>

\* A user reacts to the announcement, which is in the channel.
ReactionOnPushArrives(h) ==
  /\ rx[h].pc = "idle"
  /\ \A g \in Handlers : g < h => rx[g].pc # "idle"
  /\ PushAnnouncement.ts \in DOMAIN channel
  /\ \E req \in ReactionsOnPush :
       /\ rx' = [rx EXCEPT ![h] = chatEndpoint(Arrived(@), req)]
       /\ lastReq' = [slot |-> h, req |-> req]
  /\ UNCHANGED <<now, env, channel, ledger, px, lastPush, rt, pf, pm>>

InitRace == Init /\ env.NOTION /\ env.GITHUB_REPO = "o/r" /\ DOMAIN ledger # {}

NextRace ==
  \/ \E p \in Pushes : VerifiedPushArrives(p)
  \/ \E p \in Pushes : \E ok \in BOOLEAN : PublishReturns(p, ok)
  \/ \E p \in Pushes : \E ok \in BOOLEAN : IncidentPostReturns(p, ok)
  \/ \E p \in Pushes : \E ok \in BOOLEAN : LedgerCreateReturns(p, ok)
  \/ \E p \in Pushes : \E ok \in BOOLEAN : HintPostReturns(p, ok)
  \/ \E h \in Handlers : ReactionOnPushArrives(h)
  \/ \E h \in Handlers : \E ok \in BOOLEAN : UsersInfoReturns(h, ok)
  \/ \E h \in Handlers : \E ok \in BOOLEAN : HistoryReturns(h, ok)
  \/ \E h \in Handlers : \E ok \in BOOLEAN : ReplyReturns(h, ok)
  \/ \E h \in Handlers : \E ok \in BOOLEAN : NotionQueryReturns(h, ok)
  \/ \E h \in Handlers : \E ok \in BOOLEAN : NotionPatchReturns(h, ok)
  \/ \E h \in Handlers : \E outcome \in {"2xx", "non2xx", "error"} :
       DispatchReturns(h, outcome)
  \/ \E h \in Handlers : \E ok \in BOOLEAN : LastPostReturns(h, ok)

SpecRace == InitRace /\ [][NextRace]_vars


(***************************************************************************)
(* Properties.                                                             *)
(***************************************************************************)
Count(seq, P(_)) == Cardinality({i \in 1..Len(seq) : P(seq[i])})

Rejected(f) == f.res # <<>> /\ f.res[1].status \notin {200}

Handled(f) == \E i \in 1..Len(f.invoked) : f.invoked[i] = "handleReactionAdded"

IsDispatch(c) == c.op = "github.dispatch"
IsFallbackPost(c) == c.op = "chat.postMessage" /\ c.what = "fallback"
IsSuccessPost(c) == c.op = "chat.postMessage" /\ c.what = "success"
IsLedgerCall(c) == c.op \in {"notion.query", "notion.patch"}
IsTriggerCall(c) == IsDispatch(c) \/ IsFallbackPost(c) \/ IsSuccessPost(c)

\* The signature header is the HMAC-SHA256 of 'v0:<timestamp>:<raw body>'
\* under the signing secret, and both headers are present.
PassesVerification(req) ==
  /\ req.ts.kind # "absent"
  /\ req.sig # NoHeader
  /\ req.sig = SlackSignature(SlackSigningSecret, req.ts, req.body)

\* C1: a chat event request whose timestamp header or signature header is
\* missing, or whose signature is not the HMAC of 'v0:<timestamp>:<body>'
\* under the signing secret, is rejected and handleReactionAdded does not
\* run for it.
C1_UnverifiedRequestsAreRejected ==
  \A h \in Handlers :
    (lastReq.slot = h /\ ~PassesVerification(lastReq.req))
      => (Rejected(rx[h]) /\ ~Handled(rx[h]))

\* The push request's signature header is 'sha256=' followed by the hex
\* HMAC-SHA256 of the body under the webhook secret.
PushSignatureValid(req) ==
  req.sig = GitHubSignature(GitHubWebhookSecret, JSONstringify(JSONparse(req.raw)))

NoPushEffects(f) ==
  /\ f.dep = NoDeployment
  /\ f.slack = "none" /\ f.notion = "none" /\ f.hint = "none"
  /\ f.anchor = "none"
  /\ \A i \in 1..Len(f.trace) : f.trace[i] = "respond"

\* C2: a push request is processed only if its signature header equals
\* 'sha256=' + HMAC of the body; every request whose header is absent or
\* differs from that value is answered 401 and has no effect.
C2_BadSignatureAnswered401 ==
  \A p \in Pushes :
    (lastPush.slot = p /\ ~PushSignatureValid(lastPush.req))
      => (/\ px[p].res = <<Response(401, "Invalid signature")>>
          /\ NoPushEffects(px[p]))

\* C3: a chat event request whose timestamp is more than 300 seconds from
\* the server's clock, in the past or in the future, is rejected and
\* handleReactionAdded does not run for it, also under a valid signature.
C3_StaleRequestsAreRejected ==
  \A h \in Handlers :
    (/\ lastReq.slot = h
     /\ lastReq.req.ts.kind = "int"
     /\ Abs(NowSecs - lastReq.req.ts.val) > ReplayWindowSecs)
      => (Rejected(rx[h]) /\ ~Handled(rx[h]))

IsApprove(c) == c = "approveDeployment"
IsReject(c) == c = "rejectDeployment"

\* C4: for a reaction on a message, handleReactionAdded invokes the approve
\* path exactly once and never the reject path for white_check_mark and +1,
\* the reject path exactly once and never the approve path for x and -1,
\* and for any other symbol it issues no call and leaves the frame and the
\* ledger alone (the ledger is written only by a handler's PATCH call).
C4_SymbolTable ==
  \A h \in Handlers :
    LET f == rx[h]
        event == lastReq.req.body.event
    IN  (lastReq.slot = h /\ Handled(f) /\ event.item.type = "message")
          => /\ event.reaction \in {"white_check_mark", "+1"}
                  => /\ Count(f.invoked, IsApprove) = 1
                     /\ Count(f.invoked, IsReject) = 0
             /\ event.reaction \in {"x", "-1"}
                  => /\ Count(f.invoked, IsReject) = 1
                     /\ Count(f.invoked, IsApprove) = 0
             /\ event.reaction \notin {"white_check_mark", "+1", "x", "-1"}
                  => /\ f.calls = <<>>
                     /\ f = [IdleFrame EXCEPT !.pc = "done", !.res = f.res,
                                              !.invoked = <<"handleReactionAdded">>,
                                              !.afterRejection = f.afterRejection]

C4_Witness ==
  \E h \in Handlers :
    /\ lastReq.slot = h
    /\ lastReq.req.body.event.reaction = "+1"
    /\ lastReq.req.body.event.item.type = "message"
    /\ rx[h].pc = "done"
    /\ Count(rx[h].invoked, IsApprove) = 1
    /\ Len(rx[h].calls) >= 3

\* C5: handling a rejection reaction never invokes the trigger chain: no
\* dispatch, no success reply and no fallback message, whatever the outcomes
\* of its calls.
C5_RejectionNeverTriggers ==
  \A h \in Handlers :
    Path(rx[h]) = "rejectDeployment"
      => \A i \in 1..Len(rx[h].calls) : ~IsTriggerCall(rx[h].calls[i])

C5_Witness ==
  \E h \in Handlers :
    /\ Path(rx[h]) = "rejectDeployment"
    /\ rx[h].pc = "done"
    /\ rx[h].ledgerResult = "true"
    /\ DispatchConfigured

\* A call of the frame issued before position i has returned successfully.
ReturnedOkBefore(f, i, P(_)) ==
  \E j \in 1..(i - 1) : P(f.calls[j]) /\ j <= Len(f.oks) /\ f.oks[j]

IsLedgerPatch(c) == c.op = "notion.patch"

\* C6: on the approve path every ledger call and every call of the trigger
\* chain comes after the approval reply was posted successfully; the ledger
\* write is a PATCH to Approved whose success leaves the approver in the
\* entry's write history; and the trigger chain issues its calls only after
\* the ledger update has returned.
C6_ApproveOrder ==
  \A h \in Handlers :
    LET f == rx[h]
    IN  Path(f) = "approveDeployment"
          => \A i \in 1..Len(f.calls) :
               /\ (IsLedgerCall(f.calls[i]) \/ IsTriggerCall(f.calls[i]))
                    => ReturnedOkBefore(f, i, IsApprovalReply)
               /\ IsLedgerPatch(f.calls[i]) => f.calls[i].what = "Approved"
               /\ (IsLedgerPatch(f.calls[i]) /\ i <= Len(f.oks) /\ f.oks[i])
                    => \E k \in 1..Len(ledger[f.deploymentId].writes) :
                         ledger[f.deploymentId].writes[k] = "Approved"
               /\ IsTriggerCall(f.calls[i])
                    => /\ f.ledgerResult # "none"
                       /\ env.NOTION
                            => \E j \in 1..(i - 1) :
                                 IsLedgerCall(f.calls[j]) /\ j <= Len(f.oks)

C6_Witness ==
  \E h \in Handlers :
    /\ Path(rx[h]) = "approveDeployment"
    /\ rx[h].pc = "done"
    /\ rx[h].ledgerResult = "true"
    /\ Count(rx[h].calls, IsApprovalReply) = 1
    /\ Count(rx[h].calls, IsLedgerPatch) = 1
    /\ Count(rx[h].calls, IsDispatch) = 1
    /\ ledger[rx[h].deploymentId].approvedBy = rx[h].userName
    /\ rx[h].userName # ""

\* The trigger chain was invoked for the frame: the approve path went past
\* the ledger update.
TriggerInvoked(f) == Path(f) = "approveDeployment" /\ f.ledgerResult # "none"

DispatchSucceeded(f) ==
  \E i \in 1..Len(f.calls) : IsDispatch(f.calls[i]) /\ i <= Len(f.oks) /\ f.oks[i]

\* C7: every invocation of the trigger chain that has run to its end has
\* produced exactly one outcome: with the dispatch configured and answered
\* with a success status, the success reply was posted and no fallback
\* message; otherwise (no configuration, in which case no dispatch request
\* was sent, or a dispatch that failed) no success reply was posted and the
\* fallback message was posted exactly once.
C7_ExactlyOneOutcome ==
  \A h \in Handlers :
    LET f == rx[h]
    IN  (TriggerInvoked(f) /\ f.pc = "done")
          => /\ ~DispatchConfigured => Count(f.calls, IsDispatch) = 0
             /\ IF DispatchConfigured /\ DispatchSucceeded(f)
                THEN /\ Count(f.calls, IsSuccessPost) = 1
                     /\ Count(f.calls, IsFallbackPost) = 0
                ELSE /\ Count(f.calls, IsSuccessPost) = 0
                     /\ Count(f.calls, IsFallbackPost) = 1

\* The number of times the status of a ledger entry changed, from Pending on.
RECURSIVE StatusChanges(_, _)
StatusChanges(from, writes) ==
  IF writes = <<>> THEN 0
  ELSE (IF writes[1] # from THEN 1 ELSE 0) + StatusChanges(writes[1], Tail(writes))

\* C8: the status of every ledger entry changes at most once out of Pending
\* and never again, whatever reactions arrive on its announcement.
C8_AtMostOneTransition ==
  \A id \in DOMAIN ledger : StatusChanges("Pending", ledger[id].writes) <= 1

\* C9: approvals are not deduplicated: every approval handler that went past
\* the ledger update with a usable dispatch configuration has sent a dispatch
\* carrying its deployment identifier, whatever other handlers have done for
\* the same identifier.
C9_EveryApprovalDispatches ==
  \A h \in Handlers :
    (TriggerInvoked(rx[h]) /\ DispatchConfigured /\ RequestPathAccepted)
      => \E i \in 1..Len(rx[h].calls) :
           /\ IsDispatch(rx[h].calls[i])
           /\ rx[h].calls[i].id = rx[h].deploymentId

\* Two handlers, both waiting for the answer to a dispatch for the same
\* deployment.
C9_Witness ==
  \E g, h \in Handlers :
    /\ g # h
    /\ rx[g].pc = "dispatch" /\ rx[h].pc = "dispatch"
    /\ rx[g].deploymentId = FirstDeployment.deployment_id
    /\ rx[h].deploymentId = FirstDeployment.deployment_id
    /\ rx[g].userId # rx[h].userId

IsRespond(t) == t = "respond"

\* C10: once the fan-out of a verified push to a deployment branch has
\* started, the 200 'received' response was the first thing the handler did,
\* before the chat publish and the ledger create were started, and it stays
\* the only response whatever those operations come to.
C10_AcknowledgedBeforeFanOut ==
  \A p \in Pushes :
    px[p].dep # NoDeployment
      => /\ px[p].trace # <<>> /\ px[p].trace[1] = "respond"
         /\ Count(px[p].trace, IsRespond) = 1
         /\ px[p].res = <<Response(200, "received")>>

C10_Witness ==
  \E p \in Pushes :
    /\ px[p].pc = "done"
    /\ px[p].slack = "failed"
    /\ px[p].notion = "null"
    /\ env.NOTION
    /\ px[p].res = <<Response(200, "received")>>

\* C11: every verified chat event request that is not a url_verification
\* challenge is answered exactly once, with 200 {ok:true}: nothing that
\* happens after that response adds a second response or an error status.
C11_SingleOkResponse ==
  \A h \in Handlers :
    (/\ lastReq.slot = h
     /\ PassesVerification(lastReq.req)
     /\ lastReq.req.body.type # "url_verification")
      => rx[h].res = <<Response(200, "ok")>>

IsErrorReply(c) == c.op = "chat.postMessage" /\ c.what = "error"

IsFailed(f, i) == i <= Len(f.oks) /\ ~f.oks[i]

\* A call of the handler's try block that throws on failure: the user
\* lookup, the message fetch, the approval or rejection reply.
IsThrowingStep(c) ==
  \/ c.op \in {"users.info", "conversations.history"}
  \/ c.op = "chat.postMessage" /\ c.what \in {"approved", "rejected"}

\* An exception reached the catch block of approveDeployment or
\* rejectDeployment: a throwing step failed, or the promise of the trigger
\* chain rejected.
CaughtByHandler(f) ==
  \/ \E i \in 1..Len(f.calls) : IsThrowingStep(f.calls[i]) /\ IsFailed(f, i)
  \/ TriggerInvoked(f) /\ DispatchConfigured /\ ~RequestPathAccepted

VerifiedDeploymentPush(req) ==
  /\ PushSignatureValid(req)
  /\ req.event = "push"
  /\ isDeploymentBranch(ReplaceFirst(JSONparse(req.raw).ref, RefsHeads, <<>>))

Started(f, operation) == \E i \in 1..Len(f.trace) : f.trace[i] = operation

\* Once both operations of the fan-out are started, each comes to its own
\* end: the handler is done only when the publish has succeeded or failed
\* and the ledger create has answered a page or null.
FanOutIsolation ==
  \A p \in Pushes :
    (px[p].dep # NoDeployment /\ px[p].pc = "done")
      => px[p].slack \in {"ok", "failed"} /\ px[p].notion \in {"created", "null"}

\* C13: for every verified push to a deployment branch the chat publish and
\* the ledger create are both started, and each runs to its own completion
\* or failure whatever the other does.
C13_BothStartedAndIsolated ==
  /\ \A p \in Pushes :
       (lastPush.slot = p /\ VerifiedDeploymentPush(lastPush.req))
         => /\ Started(px[p], "sendDeploymentNotification")
            /\ Started(px[p], "createDeploymentRecord")
  /\ FanOutIsolation

IsIncidentPost(t) == t = "incidentPost"

\* C14: a failed announcement publish is followed by exactly one publish to
\* the INCIDENTS destination, and whatever that one comes to the result of
\* sendDeploymentNotification is success=false with a null thread anchor (so
\* no hint is posted); a successful announcement publish makes no INCIDENTS
\* publish and its result carries the timestamp of the announcement.
C14_IncidentFallback ==
  \A p \in Pushes :
    LET f == px[p]
    IN  /\ f.slack \in {"none", "posting", "ok"}
             => Count(f.trace, IsIncidentPost) = 0
        /\ f.slack \in {"incident", "failed"}
             => Count(f.trace, IsIncidentPost) = 1
        /\ f.slack = "failed" => f.anchor = "null" /\ f.hint = "none"
        /\ f.slack = "ok"
             => /\ f.anchor \in DOMAIN channel
                /\ channel[f.anchor].dep = f.dep
        /\ f.pc = "done" => f.slack \in {"none", "ok", "failed"}

C14_Witness ==
  \E p, q \in Pushes :
    /\ px[p].pc = "done" /\ px[p].slack = "failed"
    /\ Count(px[p].trace, IsIncidentPost) = 1
    /\ px[q].pc = "done" /\ px[q].slack = "ok" /\ px[q].hint = "failed"

IsLedgerQuery(c) == c.op = "notion.query"

\* The approval or rejection reply of the frame was posted.

\* The ledger holds no entry the handler could update.
NoLedgerEntry(f) == ~env.NOTION \/ f.deploymentId \notin DOMAIN ledger

\* C15: without a ledger entry for the deployment, or without the ledger
\* configuration, the reply is posted as always (it follows the message
\* fetch), the ledger update sends no PATCH and returns false without
\* throwing, after which the approve path invokes the trigger chain and the
\* reject path ends.
C15_DegradedLedger ==
  \A h \in Handlers :
    LET f == rx[h]
    IN  /\ (Path(f) # "none" /\ Len(f.oks) >= 2 /\ f.oks[1] /\ f.oks[2])
             => /\ Len(f.calls) >= 3
                /\ IF Path(f) = "approveDeployment"
                   THEN IsApprovalReply(f.calls[3])
                   ELSE IsRejectionReply(f.calls[3])
        /\ (Path(f) # "none" /\ ReplyPosted(f) /\ NoLedgerEntry(f))
             => /\ Count(f.calls, IsLedgerPatch) = 0
                /\ Count(f.calls, IsLedgerQuery) = (IF env.NOTION THEN 1 ELSE 0)
                /\ f.pc # "notionQuery" => f.ledgerResult = "false"
                /\ (f.ledgerResult = "false" /\ Path(f) = "rejectDeployment")
                     => f.pc = "done" /\ Count(f.calls, IsErrorReply) = 0
                /\ (f.ledgerResult = "false" /\ Path(f) = "approveDeployment")
                     => IF ~DispatchConfigured
                        THEN Count(f.calls, IsFallbackPost) = 1
                        ELSE IF RequestPathAccepted
                        THEN Count(f.calls, IsDispatch) = 1
                        ELSE Count(f.calls, IsErrorReply) = 1

\* An approval dispatched and a rejection replied to, with the ledger
\* configured and empty.
C15_Witness ==
  \E g, h \in Handlers :
    /\ env.NOTION /\ ledger = <<>>
    /\ Path(rx[g]) = "approveDeployment" /\ rx[g].pc = "done"
    /\ rx[g].ledgerResult = "false" /\ DispatchSucceeded(rx[g])
    /\ Path(rx[h]) = "rejectDeployment" /\ rx[h].pc = "done"
    /\ rx[h].ledgerResult = "false" /\ ReplyPosted(rx[h])

Succeeded(i) == i <= Len(rt.ends) /\ rt.ends[i].ok
Failed(i) == i <= Len(rt.ends) /\ ~rt.ends[i].ok

\* C16: when invocation k of the operation is the first to succeed,
\* retryWithBackoff returns the value of that invocation, the operation has
\* been invoked exactly k times (k <= maxAttempts) and it is not invoked
\* again.
C16_ReturnsFirstSuccess ==
  /\ \A k \in 1..Len(rt.ends) :
       Succeeded(k)
         => /\ \A j \in 1..(k - 1) : Failed(j)
            /\ Len(rt.starts) = k /\ k <= rt.maxAttempts
            /\ rt.pc = "returned" /\ rt.outcome = "return"
            /\ rt.result = ValueOf(k)
            /\ rt.inflight = 0
  /\ rt.outcome = "return" => Succeeded(Len(rt.starts))

C16_Witness ==
  /\ rt.pc = "returned"
  /\ Len(rt.starts) = 3 /\ Failed(1) /\ Failed(2) /\ Succeeded(3)
  /\ rt.result = ValueOf(3)
  /\ rt.maxAttempts = 4

\* C17: when every invocation fails, retryWithBackoff with maxAttempts = n
\* (n >= 1) has invoked the operation exactly n times when it throws, and
\* what it throws is the error of the n-th invocation; n failures always end
\* in that throw.
C17_RethrowsLastError ==
  /\ (rt.outcome = "throw" /\ rt.maxAttempts >= 1)
       => /\ Len(rt.starts) = rt.maxAttempts
          /\ \A i \in 1..rt.maxAttempts : Failed(i)
          /\ rt.result = ErrorOf(rt.maxAttempts)
  /\ (rt.maxAttempts >= 1 /\ Failed(rt.maxAttempts))
       => rt.pc = "threw" /\ rt.outcome = "throw"

C17_Witness ==
  /\ rt.pc = "threw"
  /\ rt.maxAttempts = 3
  /\ Len(rt.starts) = 3
  /\ rt.result = ErrorOf(3)

\* C18: the i-th delay handed to the timer is initialDelayMs * 2^(i-1), one
\* delay per failed attempt other than the final one; the first invocation
\* is made at the time of the call, and the throw after the final failure
\* comes at the time of that failure.
C18_ExponentialDelays ==
  /\ \A i \in 1..Len(rt.delays) :
       rt.delays[i] = rt.initialDelayMs * Pow2(i - 1)
  /\ Len(rt.delays) =
       Cardinality({i \in 1..Len(rt.ends) : Failed(i) /\ i < rt.maxAttempts})
  /\ rt.starts # <<>> => rt.starts[1] = 0
  /\ rt.pc = "waiting" => rt.due = rt.ends[Len(rt.ends)].at + rt.delays[Len(rt.delays)]
  /\ (rt.pc = "threw" /\ rt.maxAttempts >= 1)
       => rt.clock = rt.ends[Len(rt.ends)].at

C18_Witness ==
  /\ rt.pc = "threw"
  /\ rt.initialDelayMs = 2
  /\ rt.delays = <<2, 4, 8>>

\* C19: at most one invocation of the operation is in flight, and invocation
\* i+1 is made only after invocation i has failed and the backoff delay
\* initialDelayMs * 2^(i-1) has passed since.
C19_Sequential ==
  /\ rt.inflight \in {0, 1}
  /\ Len(rt.starts) = Len(rt.ends) + rt.inflight
  /\ \A i \in 1..(Len(rt.starts) - 1) :
       /\ Failed(i)
       /\ rt.starts[i + 1] >= rt.ends[i].at + rt.initialDelayMs * Pow2(i - 1)

C19_Witness ==
  /\ rt.pc = "running" /\ rt.inflight = 1
  /\ Len(rt.starts) = 4
  /\ rt.starts[4] > rt.ends[3].at + rt.delays[3]

\* C20: within one invocation of the trigger chain a failed dispatch is
\* attempted again before the chain falls back: when the fallback message
\* follows a dispatch, more than one dispatch request was made.
C20_DispatchRetriedBeforeFallback ==
  \A h \in Handlers :
    LET f == rx[h]
    IN  (/\ TriggerInvoked(f)
         /\ Count(f.calls, IsDispatch) >= 1
         /\ Count(f.calls, IsFallbackPost) >= 1)
          => Count(f.calls, IsDispatch) > 1

(***************************************************************************)
(* C21: getChannelForBranch maps every branch string to exactly one of the *)
(* four destinations and never to none: DEV iff the branch starts with     *)
(* 'feature/', QA iff it equals 'develop', PROD iff it equals 'main', and  *)
(* INCIDENTS for every other string.                                       *)
(***************************************************************************)
Routed == pf.fn = "getChannelForBranch" /\ pf.done

HasFeaturePrefix(b) ==
  Len(b) >= Len(FeaturePrefix)
  /\ \A i \in 1..Len(FeaturePrefix) : b[i] = FeaturePrefix[i]

C21_RouterIsTotal ==
  Routed =>
    /\ pf.dest \in {"SLACK_DEV_CHANNEL_ID", "SLACK_QA_CHANNEL_ID",
                    "SLACK_PROD_CHANNEL_ID", "SLACK_INCIDENTS_CHANNEL_ID"}
    /\ pf.dest = "SLACK_DEV_CHANNEL_ID" <=> HasFeaturePrefix(pf.branch)
    /\ pf.dest = "SLACK_QA_CHANNEL_ID" <=> pf.branch = Develop
    /\ pf.dest = "SLACK_PROD_CHANNEL_ID" <=> pf.branch = Main
    /\ pf.dest = "SLACK_INCIDENTS_CHANNEL_ID" <=>
         ~(HasFeaturePrefix(pf.branch) \/ pf.branch \in {Develop, Main})

\* A branch that starts with 'feature' but not with 'feature/' went to INCIDENTS.
C21_Witness ==
  /\ Routed
  /\ pf.branch = <<"f", "e", "a", "t", "u", "r", "e", "x">>
  /\ pf.dest = "SLACK_INCIDENTS_CHANNEL_ID"

(***************************************************************************)
(* C25: extractDeploymentId answers 'unknown' for null, undefined, the     *)
(* empty string and every text that holds no identifier of the form        *)
(* deploy-<branch>-<digits>; for a text that holds such an identifier it   *)
(* answers an identifier of that form found in the text.                   *)
(***************************************************************************)
Extracted == pf.fn = "extractDeploymentId" /\ pf.done

\* The characters of the branch names the inputs use.
BranchNameChars == Letters \cup Digits \cup {"/", "-", "_", "."}

IsIdentifierForm(s) ==
  /\ Len(s) >= Len(DeployPrefix) + 3
  /\ SubSeq(s, 1, Len(DeployPrefix)) = DeployPrefix
  /\ \E q \in (Len(DeployPrefix) + 1)..(Len(s) - 2) :
       /\ \A k \in (Len(DeployPrefix) + 1)..q : s[k] \in BranchNameChars
       /\ s[q + 1] = "-"
       /\ \A k \in (q + 2)..Len(s) : IsDigit(s[k])

IdentifiersIn(text) ==
  {x \in {SubSeq(text, i, j) : i \in 1..Len(text), j \in 1..Len(text)} :
     IsIdentifierForm(x)}

C25_ExtractsTheIdentifier ==
  Extracted =>
    IF Falsy(pf.text) \/ IdentifiersIn(pf.text.text) = {}
    THEN pf.id = Unknown
    ELSE pf.id \in IdentifiersIn(pf.text.text)

(***************************************************************************)
(* C22: a verified push whose branch, the ref without 'refs/heads/',       *)
(* neither starts with 'feature/' nor equals 'develop' or 'main' is        *)
(* answered 200 'ignored' and has no deployment identifier, starts no chat *)
(* publish and no ledger write.                                            *)
(***************************************************************************)
PushedBranch(req) == ReplaceFirst(JSONparse(req.raw).ref, RefsHeads, <<>>)

OtherBranch(b) == ~HasFeaturePrefix(b) /\ b # Develop /\ b # Main

C22_OtherBranchesIgnored ==
  \A p \in Pushes :
    (/\ lastPush.slot = p
     /\ PushSignatureValid(lastPush.req)
     /\ lastPush.req.event = "push"
     /\ OtherBranch(PushedBranch(lastPush.req)))
      => /\ px[p].res = <<Response(200, "ignored")>>
         /\ px[p].pc = "done"
         /\ px[p].dep.deployment_id = <<>>
         /\ NoPushEffects(px[p])
         /\ \A ts \in DOMAIN channel :
              channel[ts].kind = "announcement"
                => channel[ts].dep.branch # PushedBranch(lastPush.req)
         /\ \A id \in DOMAIN ledger :
              ~StartsWith(id, DeployPrefix \o PushedBranch(lastPush.req))

C22_Witness ==
  \E p \in Pushes :
    /\ lastPush.slot = p
    /\ PushSignatureValid(lastPush.req)
    /\ lastPush.req.event = "push"
    /\ PushedBranch(lastPush.req) = <<"h", "o", "t", "f", "i", "x">>
    /\ px[p].res = <<Response(200, "ignored")>>

(***************************************************************************)
(* C23: the branch filter and the router agree: every announcement the     *)
(* push handler starts goes to DEV, QA or PROD as its primary destination, *)
(* never to INCIDENTS.                                                     *)
(***************************************************************************)
C23_FilterAndRouterAgree ==
  \A p \in Pushes :
    Started(px[p], "sendDeploymentNotification")
      => /\ px[p].destination \in {"SLACK_DEV_CHANNEL_ID", "SLACK_QA_CHANNEL_ID",
                                      "SLACK_PROD_CHANNEL_ID"}
         /\ px[p].destination = "SLACK_DEV_CHANNEL_ID"
              <=> HasFeaturePrefix(px[p].dep.branch)
         /\ px[p].destination = "SLACK_QA_CHANNEL_ID" <=> px[p].dep.branch = Develop
         /\ px[p].destination = "SLACK_PROD_CHANNEL_ID" <=> px[p].dep.branch = Main

C23_Witness ==
  \E p \in Pushes :
    /\ px[p].slack = "ok"
    /\ px[p].dep.branch = Main
    /\ px[p].destination = "SLACK_PROD_CHANNEL_ID"

(***************************************************************************)
(* C24: any two pushes the router accepts receive distinct deployment      *)
(* identifiers, two pushes to the same branch included.                    *)
(***************************************************************************)
C24_DistinctIdentifiers ==
  \A p, q \in Pushes :
    (p # q /\ px[p].dep # NoDeployment /\ px[q].dep # NoDeployment)
      => px[p].dep.deployment_id # px[q].dep.deployment_id

(***************************************************************************)
(* C26: every push-webhook request with a valid signature receives exactly *)
(* one response, a 200: 'received' for a push to a deployment branch,      *)
(* 'ignored' for any other event type or branch, whatever the commits      *)
(* list.                                                                   *)
(***************************************************************************)
C26_VerifiedAlways200 ==
  \A p \in Pushes :
    (lastPush.slot = p /\ PushSignatureValid(lastPush.req))
      => px[p].res =
           <<Response(200,
                      IF lastPush.req.event = "push"
                         /\ ~OtherBranch(PushedBranch(lastPush.req))
                      THEN "received" ELSE "ignored")>>

(***************************************************************************)
(* C27: a reaction whose item is not a message causes no call and changes  *)
(* nothing, whatever its symbol, the approval and rejection symbols        *)
(* included.                                                               *)
(***************************************************************************)
C27_OnlyMessagesAreHandled ==
  \A h \in Handlers :
    LET f == rx[h]
        event == lastReq.req.body.event
    IN  (/\ lastReq.slot = h
         /\ Handled(f)
         /\ event.type = "reaction_added"
         /\ event.item.type # "message")
          => /\ f.calls = <<>>
             /\ Count(f.invoked, IsApprove) = 0
             /\ Count(f.invoked, IsReject) = 0
             /\ f = [IdleFrame EXCEPT !.pc = "done", !.res = f.res,
                                      !.invoked = <<"handleReactionAdded">>,
                                      !.afterRejection = f.afterRejection]

C27_Witness ==
  \E h \in Handlers :
    /\ lastReq.slot = h
    /\ lastReq.req.body.event.reaction = "white_check_mark"
    /\ lastReq.req.body.event.item.type = "file"
    /\ rx[h].invoked = <<"handleReactionAdded">>
    /\ rx[h].pc = "done"

(***************************************************************************)
(* C28: the deployment event of a verified push to a deployment branch     *)
(* summarizes the last commit of the list: commit_sha is the first 7       *)
(* characters of its id, commit_message the text before its first line     *)
(* break, and the announcement text holds that short SHA and that first    *)
(* line and no later line of the message.                                  *)
(***************************************************************************)
IsPrefixOf(a, b) == Len(a) <= Len(b) /\ \A i \in 1..Len(a) : a[i] = b[i]

Contains(text, part) ==
  \E i \in 0..(Len(text) - Len(part)) :
    \A k \in 1..Len(part) : text[i + k] = part[k]

\* The lines of a message after its first one, the empty ones left out.
LaterLines(message) ==
  {l \in {SubSeq(message, i, j) : i \in 1..Len(message), j \in 1..Len(message)} :
     /\ l # <<>>
     /\ \A k \in 1..Len(l) : l[k] # "\n"
     /\ \E i \in 2..Len(message) :
          /\ message[i - 1] = "\n"
          /\ i + Len(l) - 1 <= Len(message)
          /\ SubSeq(message, i, i + Len(l) - 1) = l
          /\ (i + Len(l) > Len(message) \/ message[i + Len(l)] = "\n")}

C28_SummarizesLastCommit ==
  \A p \in Pushes :
    (lastPush.slot = p /\ px[p].dep # NoDeployment)
      => LET commits == JSONparse(lastPush.req.raw).commits
             last == commits[Len(commits)]
             d == px[p].dep
             text == AnnouncementText(d)
         IN  /\ IsPrefixOf(d.commit_sha, last.id)
             /\ Len(d.commit_sha) = IF Len(last.id) < 7 THEN Len(last.id) ELSE 7
             /\ IsPrefixOf(d.commit_message, last.message)
             /\ \A k \in 1..Len(d.commit_message) : d.commit_message[k] # "\n"
             /\ \/ Len(d.commit_message) = Len(last.message)
                \/ last.message[Len(d.commit_message) + 1] = "\n"
             /\ Contains(text, d.commit_sha)
             /\ Contains(text, d.commit_message)
             /\ \A l \in LaterLines(last.message) : ~Contains(text, l)
             /\ \A ts \in DOMAIN channel :
                  (channel[ts].kind = "announcement" /\ channel[ts].dep = d)
                    => MessageText(channel[ts]) = text

C28_Witness ==
  \E p \in Pushes :
    /\ lastPush.slot = p
    /\ JSONparse(lastPush.req.raw).commits = <<Commit2, Commit1>>
    /\ px[p].slack = "ok"
    /\ px[p].dep.commit_sha = <<"a", "b", "c", "1", "2", "3", "4">>
    /\ px[p].dep.commit_message = <<"F", "i", "x", " ", "b", "u", "g">>
    /\ LaterLines(Commit1.message) = {<<"b", "o", "d", "y">>}

(***************************************************************************)
(* C29: every failure of a downstream call of a reaction handler, a ledger *)
(* query or update or the CI dispatch, is followed by a message to the     *)
(* thread of the deployment: the error reply or the manual fallback.       *)
(***************************************************************************)
IsThreadNotice(f, c) ==
  /\ c.op = "chat.postMessage"
  /\ c.what \in {"error", "fallback"}
  /\ c.channel = f.channel /\ c.thread = f.threadTs

C29_FailuresReachTheThread ==
  \A h \in Handlers :
    LET f == rx[h]
    IN  f.pc = "done"
          => \A i \in 1..Len(f.calls) :
               ((IsLedgerCall(f.calls[i]) \/ IsDispatch(f.calls[i])) /\ IsFailed(f, i))
                 => \E j \in (i + 1)..Len(f.calls) : IsThreadNotice(f, f.calls[j])

(***************************************************************************)
(* C30: reviewDeployment records an auto-approval in the ledger and        *)
(* triggers a deployment only when ENABLE_AUTO_APPROVAL is 'true', the DEV *)
(* risk level is LOW, the PM decision is AUTO_APPROVE with a confidence of *)
(* at least 0.8 and the branch is neither main nor master; a deployment of *)
(* main or master is never auto-approved.                                  *)
(***************************************************************************)
CalledPM(call) == \E i \in 1..Len(pm.calls) : pm.calls[i] = call

AutoApprovedByAgent ==
  \/ CalledPM("updateDeploymentApproval")
  \/ CalledPM("triggerDeployment")
  \/ CalledPM("postAgentUpdate: auto-approved")
  \/ pm.result.autoApproved = "true"
  \/ \E id \in DOMAIN ledger : ledger[id].approvedBy = "PM Agent (Auto)"

\* The first risk level the notes state is LOW.
StatesLowRiskFirst(notes) ==
  \E i \in 1..Len(notes) :
    /\ MatchesAt(notes, i, RiskLevelLabel \o <<"L", "O", "W">>)
    /\ \A j \in 1..(i - 1) :
         /\ ~MatchesAt(notes, j, RiskLevelLabel \o <<"M", "E", "D", "I", "U", "M">>)
         /\ ~MatchesAt(notes, j, RiskLevelLabel \o <<"H", "I", "G", "H">>)

C30_AutoApprovalOnlyWhenAllHold ==
  AutoApprovedByAgent
    => /\ pm.ENABLE_AUTO_APPROVAL = "true"
       /\ pm.stored.notes.kind = "string"
       /\ StatesLowRiskFirst(pm.stored.notes.text)
       /\ pm.response.decision = "AUTO_APPROVE"
       /\ pm.response.confidence.kind = "number"
       /\ pm.response.confidence.hundredths >= 80
       /\ pm.stored.branch \notin {JsString(Main), JsString(Master)}

\* A feature branch was auto-approved, recorded in the ledger and triggered.
C30_Witness ==
  /\ pm.pc = "returned"
  /\ pm.result.autoApproved = "true"
  /\ pm.stored.branch = JsString(FeaturePrefix \o <<"x">>)
  /\ pm.response.confidence.hundredths = 80
  /\ CalledPM("triggerDeployment")
  /\ pm.dispatch = "accepted"
  /\ \E id \in DOMAIN ledger : ledger[id].approvedBy = "PM Agent (Auto)"

(***************************************************************************)
(* C31: when the record fetch answers null or throws, the model call fails *)
(* or its response holds no JSON, reviewDeployment returns success=false   *)
(* and defaultToHumanApproval=true, and in that run it has neither written *)
(* a ledger approval nor triggered a deployment.                           *)
(***************************************************************************)
ReviewStepFailed ==
  \E i \in 1..Len(pm.answers) :
    pm.answers[i] \in {"null", "throw", "api error", "prose"}

C31_FailureDefaultsToHuman ==
  ReviewStepFailed
    => /\ pm.pc \in {"failedPost", "returned"}
       /\ pm.pc = "returned"
            => /\ pm.result.success = "false"
               /\ pm.result.defaultToHumanApproval = "true"
               /\ pm.result.autoApproved # "true"
       /\ ~CalledPM("updateDeploymentApproval")
       /\ ~CalledPM("triggerDeployment")
       /\ \A id \in DOMAIN ledger : ledger[id] = PendingEntry
       /\ pm.calls[Len(pm.calls)] = "postAgentUpdate: review failed"

\* The response of the model was prose and the review has returned.
C31_Witness ==
  /\ pm.pc = "returned"
  /\ pm.answers = <<"record", "prose">>
  /\ pm.ENABLE_AUTO_APPROVAL = "true"
  /\ pm.result.defaultToHumanApproval = "true"
  /\ DOMAIN ledger # {}

(***************************************************************************)
(* C39: reviewDeployment never auto-approves on malformed input: a PM      *)
(* decision other than AUTO_APPROVE or HUMAN_REVIEW is taken as            *)
(* HUMAN_REVIEW, a confidence that is not a number as 0, DEV notes that    *)
(* are missing or state no risk level and no recommendation as MEDIUM and  *)
(* REVIEW, and in each case no ledger approval is written and no           *)
(* deployment is triggered.                                                *)
(***************************************************************************)
DecisionTaken == pm.devDecision.risk_level # "none"

NotesUnparseable ==
  \/ pm.stored.notes.kind # "string"
  \/ \A i \in 1..Len(pm.stored.notes.text) :
       /\ \A w \in RiskLevels :
            ~MatchesAt(pm.stored.notes.text, i, RiskLevelLabel \o w.word)
       /\ \A w \in Recommendations :
            ~MatchesAt(pm.stored.notes.text, i, RecommendationLabel \o w.word)

NotAutoApproved ==
  /\ ~pm.canAutoApprove
  /\ ~CalledPM("postAgentUpdate: auto-approved")
  /\ ~CalledPM("updateDeploymentApproval")
  /\ ~CalledPM("triggerDeployment")
  /\ pm.result.autoApproved # "true"
  /\ \A id \in DOMAIN ledger : ledger[id] = PendingEntry

C39_MalformedInputNeverApproves ==
  DecisionTaken
    => /\ pm.response.decision \notin {"AUTO_APPROVE", "HUMAN_REVIEW"}
            => pm.decision.decision = "HUMAN_REVIEW" /\ NotAutoApproved
       /\ pm.response.confidence.kind # "number"
            => /\ pm.decision.confidence = [kind |-> "number", hundredths |-> 0]
               /\ NotAutoApproved
       /\ NotesUnparseable
            => /\ pm.devDecision = [risk_level |-> "MEDIUM", recommendation |-> "REVIEW"]
               /\ NotAutoApproved

\* AUTO_APPROVE with the confidence "0.9", a string, on a feature branch
\* with LOW risk notes: human approval was requested.
C39_Witness ==
  /\ pm.pc = "returned"
  /\ pm.ENABLE_AUTO_APPROVAL = "true"
  /\ pm.response.decision = "AUTO_APPROVE"
  /\ pm.response.confidence.kind = "string"
  /\ pm.devDecision.risk_level = "LOW"
  /\ pm.stored.branch = JsString(Develop)
  /\ pm.result.autoApproved = "false"

(***************************************************************************)
(* C40: triggerDeployment resolves with success=true only when the CI      *)
(* dispatch was accepted; without the dispatch configuration, or when the  *)
(* dispatch call fails, it resolves with success=false, so the agent's     *)
(* trigger-failure branch is taken exactly in those cases.                 *)
(***************************************************************************)
C40_SuccessIffDispatchAccepted ==
  (pm.pc = "returned" /\ CalledPM("triggerDeployment"))
    => (pm.deploymentResult = "true" <=> pm.dispatch = "accepted")

(***************************************************************************)
(* C32: once a rejection of a deployment has been handled (the rejection   *)
(* reply posted and the ledger entry set to Rejected), no reaction that    *)
(* arrives later issues a CI dispatch for that deployment identifier.      *)
(***************************************************************************)

DispatchedFor(h, id) ==
  \E i \in 1..Len(rx[h].calls) :
    IsDispatch(rx[h].calls[i]) /\ rx[h].calls[i].id = id

C32_NoDispatchAfterRejection ==
  \A h \in Handlers :
    rx[h].afterRejection => ~DispatchedFor(h, FirstDeployment.deployment_id)

(***************************************************************************)
(* C33: for every deployment event the router can create, whatever the     *)
(* branch that passed the filter (slashes, hyphens followed by digits,     *)
(* underscores or dots), extractDeploymentId applied to the text of the    *)
(* announcement answers exactly the deployment identifier of the event.    *)
(***************************************************************************)
C33_IdentifierRoundTrip ==
  Extracted =>
    \A b \in AnnouncedBranches :
      (isDeploymentBranch(b)
       /\ pf.text = JsString(AnnouncementText(DeploymentOf(b))))
        => pf.id = DeploymentOf(b).deployment_id

(***************************************************************************)
(* C34: a CI dispatch carries only a deployment identifier the router      *)
(* created for a push: an approval reaction on a message that holds no     *)
(* identifier never leads to a dispatch with the sentinel 'unknown'.       *)
(***************************************************************************)
AnnouncedIdentifiers ==
  {channel[ts].dep.deployment_id :
     ts \in {m \in DOMAIN channel : channel[m].kind = "announcement"}}

C34_DispatchOnlyKnownIdentifiers ==
  \A h \in Handlers :
    \A i \in 1..Len(rx[h].calls) :
      IsDispatch(rx[h].calls[i])
        => /\ rx[h].calls[i].id # Unknown
           /\ rx[h].calls[i].id \in AnnouncedIdentifiers

(***************************************************************************)
(* C35: an approval handled while the ledger create of the fan-out for the *)
(* same deployment is in flight is still recorded: once the create has     *)
(* succeeded and the handling of the approval, all of whose calls          *)
(* succeeded, has completed, and no rejection was handled, the ledger      *)
(* entry of the deployment has status Approved, not Pending.               *)
(***************************************************************************)
AllCallsSucceeded(f) ==
  Len(f.oks) = Len(f.calls) /\ \A i \in 1..Len(f.oks) : f.oks[i]

C35_ApprovalSurvivesCreate ==
  \A p \in Pushes : \A h \in Handlers :
    (/\ px[p].notion = "created"
     /\ px[p].anchor = PushAnnouncement.ts
     /\ rx[h].pc = "done"
     /\ Path(rx[h]) = "approveDeployment"
     /\ rx[h].deploymentId = px[p].dep.deployment_id
     /\ AllCallsSucceeded(rx[h])
     /\ \A g \in Handlers : Path(rx[g]) # "rejectDeployment")
      => /\ px[p].dep.deployment_id \in DOMAIN ledger
         /\ ledger[px[p].dep.deployment_id].status = "Approved"

(***************************************************************************)
(* C36: whenever the handling of an approval reaction has ended after the  *)
(* approval reply was posted, a success reply or a manual fallback message *)
(* has been posted or attempted.                                           *)
(***************************************************************************)
C36_ApprovalEndsWithOutcome ==
  \A h \in Handlers :
    (/\ Path(rx[h]) = "approveDeployment"
     /\ rx[h].pc = "done"
     /\ ReplyPosted(rx[h]))
      => \E i \in 1..Len(rx[h].calls) :
           IsSuccessPost(rx[h].calls[i]) \/ IsFallbackPost(rx[h].calls[i])

(***************************************************************************)
(* C37: in every reachable state a ledger entry with status Approved has   *)
(* its approver and approval time set, and an entry with status Rejected   *)
(* its rejecter and rejection time: status and identity are written by the *)
(* same update.                                                            *)
(***************************************************************************)
C37_StatusComesWithIdentity ==
  \A id \in DOMAIN ledger :
    LET e == ledger[id]
    IN  /\ e.status \in {"Pending", "Approved", "Rejected"}
        /\ e.status = "Approved" => e.approvedBy # "" /\ e.approvalTime # 0
        /\ e.status = "Rejected" => e.rejectedBy # "" /\ e.rejectionTime # 0
        /\ e.approvedBy # "" <=> \E i \in 1..Len(e.writes) : e.writes[i] = "Approved"
        /\ e.rejectedBy # "" <=> \E i \in 1..Len(e.writes) : e.writes[i] = "Rejected"
        /\ e.status = "Pending" <=> e.writes = <<>>

\* An entry rejected by one user and then approved by another.
C37_Witness ==
  \E id \in DOMAIN ledger :
    /\ ledger[id].writes = <<"Rejected", "Approved">>
    /\ ledger[id].status = "Approved"
    /\ ledger[id].approvedBy = "bob"
    /\ ledger[id].rejectedBy = "Ana Diaz"

(***************************************************************************)
(* C38: every message posted while a reaction is handled (the approval or  *)
(* rejection reply, the success reply, the manual fallback message, the    *)
(* error reply) goes to the channel and the thread anchor of the item of   *)
(* that reaction, never to another channel or thread.                      *)
(***************************************************************************)
IsPost(c) == c.op = "chat.postMessage"

C38_PostsStayInThread ==
  \A h \in Handlers :
    (lastReq.slot = h /\ Path(rx[h]) # "none")
      => LET item == lastReq.req.body.event.item
         IN  \A i \in 1..Len(rx[h].calls) :
               IsPost(rx[h].calls[i])
                 => /\ rx[h].calls[i].channel = item.channel
                    /\ rx[h].calls[i].thread = item.ts
                    /\ rx[h].calls[i].what \in
                         {"approved", "rejected", "success", "fallback", "error"}

\* An approval on the message M0 ended with the reply and the fallback
\* message in its thread, after a reaction on M1 was handled.
C38_Witness ==
  \E g, h \in Handlers :
    /\ g # h /\ lastReq.slot = h
    /\ rx[g].threadTs = "M1" /\ Count(rx[g].calls, IsPost) >= 1
    /\ rx[h].threadTs = "M0" /\ rx[h].pc = "done"
    /\ Count(rx[h].calls, IsApprovalReply) = 1
    /\ Count(rx[h].calls, IsFallbackPost) = 1
    /\ \A i \in 1..Len(rx[h].calls) :
         IsPost(rx[h].calls[i]) => rx[h].calls[i].thread = "M0"

====
